---------------------------- MODULE Spec2Model ----------------------------
(***************************************************************************)
(* A model of the stateful components of crypto-trading-strategies:        *)
(*                                                                         *)
(*   BacktestEngine  (src/backtest_engine.py)  trade accounting            *)
(*   RiskManager     (src/risk_manager.py)     risk gating, circuit breaker*)
(*   GridTradingStrategy (src/strategies/grid_trading.py)  grid signals    *)
(*                                                                         *)
(* Numbers.  The program computes with Python floats; the model computes   *)
(* with exact rationals on fixed denominators, so that every product of    *)
(* the accounting formulas is an integer:                                  *)
(*   - commission and slippage are rates in 1/RateDen;                     *)
(*   - reference prices and quantities are integers;                       *)
(*   - execution prices, entry_price and the engine's position_value       *)
(*     (a price times a quantity) are in units of 1/RateDen;               *)
(*   - cash amounts (capital, cost, fee, revenue, pnl, equity) are in      *)
(*     units of 1/RateDen^2;                                               *)
(*   - quotients that need not be integers (pnl_pct, a sized quantity)     *)
(*     are normalised fractions [num, den].                                *)
(* Floating-point rounding is therefore not modelled.                      *)
(***************************************************************************)
EXTENDS Integers, Sequences, FiniteSets, TLC

VARIABLES
    \* ---- BacktestEngine (src/backtest_engine.py:34-51)
    initial_capital, commission, slippage,
    capital, position, position_value, entry_price,
    trades, equity_curve,
    total_trades, winning_trades, losing_trades,
    call,           \* the last BacktestEngine call: its name and arguments
    \* ---- RiskManager (src/risk_manager.py:32-53)
    config,
    initial_balance, current_balance, equity,
    daily_start_balance, daily_pnl, last_reset_date,
    consecutive_losses,
    circuit_breaker_active, circuit_breaker_reason,
    open_positions,
    today,          \* the environment: datetime.now().date()
    rcall,          \* the last RiskManager call: name, arguments, result
    \* ---- GridTradingStrategy (src/strategies/grid_trading.py:41-48)
    grid_levels, price_range, profit_per_grid, base_price,
    grids, grid_positions,
    gcall,          \* the last GridTradingStrategy call: arguments, result
    \* ---- history
    streak          \* record_trade_result losses since the last win

engineVars == <<initial_capital, commission, slippage, capital, position,
                position_value, entry_price, trades, equity_curve,
                total_trades, winning_trades, losing_trades, call>>

riskVars == <<config, initial_balance, current_balance, equity,
              daily_start_balance, daily_pnl, last_reset_date,
              consecutive_losses, circuit_breaker_active,
              circuit_breaker_reason, open_positions, today, rcall>>

gridVars == <<grid_levels, price_range, profit_per_grid, base_price,
              grids, grid_positions, gcall>>

vars == <<engineVars, riskVars, gridVars, streak>>

-----------------------------------------------------------------------------
(* Bounds of the model *)

MaxPrice == 2           \* reference prices 1..MaxPrice
MaxQuantity == 1        \* quantities 0..MaxQuantity
MaxTrades == 3          \* length of the trades list
MaxEquityPoints == 1    \* length of the equity curve

(* Inputs of the runs *)

InitialCapital == 2     \* initial_capital, in whole units of cash

RateDen == 1000         \* denominator of the rates
MoneyDen == RateDen * RateDen

Prices == 1..MaxPrice
Quantities == 0..MaxQuantity
Timestamps == {1}
CommissionRates == {0, 1}       \* in 1/RateDen; 1 is the default, 0.001
SlippageRates == {0, 1}         \* in 1/RateDen
Signals == {"long", "close", "hold", "short"}

-----------------------------------------------------------------------------
(* Exact fractions *)

Abs(x) == IF x < 0 THEN -x ELSE x

RECURSIVE GCD(_, _)
GCD(a, b) == IF b = 0 THEN a ELSE GCD(b, a % b)

\* n / d for d # 0, as a fraction in lowest terms with a positive denominator
Frac(n, d) ==
    LET g == GCD(Abs(n), Abs(d))
        s == IF d < 0 THEN -1 ELSE 1
    IN  [num |-> (s * n) \div g, den |-> (s * d) \div g]

Zero == Frac(0, 1)

\* the call ends by raising ZeroDivisionError instead of returning
ZeroDivisionError == [raises |-> "ZeroDivisionError"]

-----------------------------------------------------------------------------
(* BacktestEngine *)

NoCall == [op |-> "init"]

\* BacktestEngine.__init__(initial_capital, commission, slippage)
EngineInitWith(cap, cm, sl) ==
    /\ initial_capital = cap
    /\ commission = cm
    /\ slippage = sl
    /\ capital = initial_capital
    /\ position = 0
    /\ position_value = 0
    /\ entry_price = 0
    /\ trades = <<>>
    /\ equity_curve = <<>>
    /\ total_trades = 0
    /\ winning_trades = 0
    /\ losing_trades = 0
    /\ call = NoCall

\* execution_price, in 1/RateDen
ExecutionPrice(signal, price) ==
    IF signal = "long" THEN price * (RateDen + slippage)
                       ELSE price * (RateDen - slippage)

IsBuyAnyPosition(signal) == signal = "long"

\* the guard of the buy branch
IsBuy(signal) == signal = "long" /\ position = 0

\* the guard of the sell branch
IsSell(signal) == signal = "close" /\ position > 0

\* cost = execution_price * quantity, in 1/RateDen
Cost(execution_price, quantity) == execution_price * quantity

\* fee = cost * commission, in 1/RateDen^2
Fee(cost) == cost * commission

TotalCostNoFee(cost, fee) == cost * RateDen

\* total_cost = cost + fee, in 1/RateDen^2
TotalCost(cost, fee) == cost * RateDen + fee

AffordableAlways(total_cost) == TRUE

AffordableOfInitial(total_cost) == total_cost <= initial_capital

\* if total_cost <= self.capital
Affordable(total_cost) == total_cost <= capital

BuyTrade(timestamp, execution_price, quantity, total_cost, fee, cap) ==
    [type |-> "buy", timestamp |-> timestamp, price |-> execution_price,
     quantity |-> quantity, cost |-> total_cost, fee |-> fee,
     capital |-> cap]

BuyCounted(timestamp, price, quantity) ==
    LET execution_price == ExecutionPrice("long", price)
        cost == Cost(execution_price, quantity)
        fee == Fee(cost)
        total_cost == TotalCost(cost, fee)
    IN  IF Affordable(total_cost)
        THEN /\ position' = quantity
             /\ entry_price' = execution_price
             /\ capital' = capital - total_cost
             /\ position_value' = cost
             /\ trades' = Append(trades,
                    BuyTrade(timestamp, execution_price, quantity,
                             total_cost, fee, capital - total_cost))
             /\ total_trades' = total_trades + 1
             /\ UNCHANGED <<winning_trades, losing_trades>>
        ELSE UNCHANGED <<position, entry_price, capital, position_value,
                         trades, total_trades, winning_trades, losing_trades>>

Buy(timestamp, price, quantity) ==
    LET execution_price == ExecutionPrice("long", price)
        cost == Cost(execution_price, quantity)
        fee == Fee(cost)
        total_cost == TotalCost(cost, fee)
    IN  IF Affordable(total_cost)
        THEN /\ position' = quantity
             /\ entry_price' = execution_price
             /\ capital' = capital - total_cost
             /\ position_value' = cost
             /\ trades' = Append(trades,
                    BuyTrade(timestamp, execution_price, quantity,
                             total_cost, fee, capital - total_cost))
             /\ UNCHANGED <<total_trades, winning_trades, losing_trades>>
        ELSE UNCHANGED <<position, entry_price, capital, position_value,
                         trades, total_trades, winning_trades, losing_trades>>

NetRevenueGross(revenue, fee) == revenue * RateDen

\* net_revenue = revenue - fee, in 1/RateDen^2
NetRevenue(revenue, fee) == revenue * RateDen - fee

EntryCostBasisNoFee == (entry_price * position) * RateDen

\* entry_price * position + entry_price * position * commission
EntryCostBasis ==
    (entry_price * position) * RateDen + (entry_price * position) * commission

\* pnl = net_revenue - entry cost basis, in 1/RateDen^2
Pnl(net_revenue) == net_revenue - EntryCostBasis

\* pnl_pct = (pnl / (entry_price * position)) * 100
PnlPct(pnl) == Frac(pnl * 100, entry_price * position * RateDen)

IsWinWholeUnit(pnl) == pnl > MoneyDen

\* if pnl > 0: a winning trade, else a losing trade
IsWin(pnl) == pnl > 0

SellTrade(timestamp, execution_price, net_revenue, fee, pnl, pnl_pct, cap) ==
    [type |-> "sell", timestamp |-> timestamp, price |-> execution_price,
     quantity |-> position, revenue |-> net_revenue, fee |-> fee,
     pnl |-> pnl, pnl_pct |-> pnl_pct, capital |-> cap,
     entry_price |-> entry_price]

Sell(timestamp, price) ==
    LET execution_price == ExecutionPrice("close", price)
        revenue == Cost(execution_price, position)
        fee == Fee(revenue)
        net_revenue == NetRevenue(revenue, fee)
        pnl == Pnl(net_revenue)
        pnl_pct == PnlPct(pnl)
    IN  /\ capital' = capital + net_revenue
        /\ trades' = Append(trades,
               SellTrade(timestamp, execution_price, net_revenue, fee,
                         pnl, pnl_pct, capital + net_revenue))
        /\ total_trades' = total_trades + 1
        /\ IF IsWin(pnl)
           THEN /\ winning_trades' = winning_trades + 1
                /\ UNCHANGED losing_trades
           ELSE /\ losing_trades' = losing_trades + 1
                /\ UNCHANGED winning_trades
        /\ position' = 0
        /\ entry_price' = 0
        /\ position_value' = 0

\* pnl / (self.entry_price * self.position) divides by zero for a position
\* bought at an execution price of 0; it is evaluated before any assignment
SellRaises == entry_price * position = 0

\* the record of a call of execute_trade; raises is "" when it returns
ExecuteTradeCall(timestamp, signal, price, quantity) ==
    [op |-> "execute_trade", timestamp |-> timestamp, signal |-> signal,
     price |-> price, quantity |-> quantity, raises |-> ""]

\* BacktestEngine.execute_trade(timestamp, signal, price, quantity).
\* strategy_info is an opaque payload copied into the trade; it is left out.
execute_trade(timestamp, signal, price, quantity) ==
    /\ IF IsBuy(signal)
       THEN /\ Buy(timestamp, price, quantity)
            /\ call' = ExecuteTradeCall(timestamp, signal, price, quantity)
       ELSE IF IsSell(signal) /\ SellRaises
       THEN /\ call' = [ExecuteTradeCall(timestamp, signal, price, quantity)
                           EXCEPT !.raises = "ZeroDivisionError"]
            /\ UNCHANGED <<position, entry_price, capital, position_value,
                           trades, total_trades, winning_trades, losing_trades>>
       ELSE IF IsSell(signal)
       THEN /\ Sell(timestamp, price)
            /\ call' = ExecuteTradeCall(timestamp, signal, price, quantity)
       ELSE /\ call' = ExecuteTradeCall(timestamp, signal, price, quantity)
            /\ UNCHANGED <<position, entry_price, capital, position_value,
                           trades, total_trades, winning_trades, losing_trades>>
    /\ UNCHANGED <<initial_capital, commission, slippage, equity_curve>>

EquityPositionValueAtEntry(current_price) == position_value * RateDen

\* position_value of an equity point, in 1/RateDen^2
EquityPositionValue(current_price) ==
    IF position > 0 THEN position * current_price * MoneyDen ELSE 0

\* BacktestEngine.update_equity(timestamp, current_price)
update_equity(timestamp, current_price) ==
    /\ call' = [op |-> "update_equity", timestamp |-> timestamp,
                price |-> current_price]
    /\ equity_curve' = Append(equity_curve,
           [timestamp |-> timestamp, capital |-> capital,
            position_value |-> EquityPositionValue(current_price),
            total_equity |-> capital + EquityPositionValue(current_price)])
    /\ UNCHANGED <<initial_capital, commission, slippage, capital, position,
                   position_value, entry_price, trades, total_trades,
                   winning_trades, losing_trades>>

-----------------------------------------------------------------------------
(* BacktestEngine.get_performance_metrics.  Cash values are integers in    *)
(* 1/RateDen^2; ratios are fractions; float('inf') is Infinity.            *)

\* "無交易記錄"
NoTradesText == <<28961, 20132, 26131, 35352, 37682>>

RECURSIVE Sum(_)
Sum(xs) == IF xs = <<>> THEN 0 ELSE xs[1] + Sum(Tail(xs))

RECURSIVE Max(_)
Max(xs) ==
    IF Len(xs) = 1 THEN xs[1]
    ELSE LET m == Max(Tail(xs)) IN IF xs[1] >= m THEN xs[1] ELSE m

RECURSIVE Min(_)
Min(xs) ==
    IF Len(xs) = 1 THEN xs[1]
    ELSE LET m == Min(Tail(xs)) IN IF xs[1] <= m THEN xs[1] ELSE m

\* a / b < c / d for a, c >= 0 and b, d > 0, without forming products
RECURSIVE PosLess(_, _, _, _)
PosLess(a, b, c, d) ==
    IF a \div b # c \div d THEN a \div b < c \div d
    ELSE IF c % d = 0 THEN FALSE
    ELSE IF a % b = 0 THEN TRUE
    ELSE PosLess(d, c % d, b, a % b)

\* x < y for fractions
FracLess(x, y) ==
    IF x.num < 0
    THEN y.num >= 0 \/ PosLess(-y.num, y.den, -x.num, x.den)
    ELSE y.num >= 0 /\ PosLess(x.num, x.den, y.num, y.den)

RECURSIVE FracMin(_)
FracMin(xs) ==
    IF Len(xs) = 1 THEN xs[1]
    ELSE LET m == FracMin(Tail(xs)) IN IF FracLess(m, xs[1]) THEN m ELSE xs[1]

\* float('inf')
Infinity == [num |-> 1, den |-> 0]

\* final_capital = self.capital
FinalCapital == capital

\* total_return = final_capital - self.initial_capital
TotalReturn == FinalCapital - initial_capital

\* total_return_pct = (total_return / self.initial_capital) * 100
TotalReturnPct == Frac(TotalReturn * 100, initial_capital)

\* win_rate
WinRate ==
    IF total_trades > 0 THEN Frac(winning_trades * 100, total_trades) ELSE Zero

\* sell_trades = [t for t in self.trades if t['type'] == 'sell']
SellTrades == SelectSeq(trades, LAMBDA t : t.type = "sell")

PnlOf(ts) == [i \in 1..Len(ts) |-> ts[i].pnl]

\* profits = [t['pnl'] for t in sell_trades if t['pnl'] > 0]
Profits == PnlOf(SelectSeq(SellTrades, LAMBDA t : t.pnl > 0))

\* losses = [t['pnl'] for t in sell_trades if t['pnl'] < 0]
Losses == PnlOf(SelectSeq(SellTrades, LAMBDA t : t.pnl < 0))

\* np.mean(xs) if xs else 0
MeanOrZero(xs) == IF xs # <<>> THEN Frac(Sum(xs), Len(xs)) ELSE Zero

\* profit_factor; when there is no sell trade at all every statistic is 0
ProfitFactor ==
    IF SellTrades # <<>>
    THEN IF Losses # <<>> THEN Frac(Abs(Sum(Profits)), Abs(Sum(Losses)))
                          ELSE Infinity
    ELSE Zero

\* max_profit = max(profits) if profits else 0
MaxProfit == IF Profits # <<>> THEN Max(Profits) ELSE 0

\* max_loss = min(losses) if losses else 0
MaxLoss == IF Losses # <<>> THEN Min(Losses) ELSE 0

RunningMaxCurrent(i) == equity_curve[i].total_equity

\* running_max = equity_series.expanding().max(), at point i
RunningMax(i) == Max([j \in 1..i |-> equity_curve[j].total_equity])

\* drawdown = (equity_series - running_max) / running_max * 100
Drawdown ==
    [i \in 1..Len(equity_curve) |->
        Frac((equity_curve[i].total_equity - RunningMax(i)) * 100, RunningMax(i))]

\* max_drawdown = drawdown.min() if self.equity_curve else 0
MaxDrawdown == IF equity_curve # <<>> THEN FracMin(Drawdown) ELSE Zero

\* returns = [t['pnl_pct'] for t in sell_trades]
Returns == [i \in 1..Len(SellTrades) |-> SellTrades[i].pnl_pct]

\* np.std(returns) > 0: the returns are not all equal
StdPositive == \E i \in 1..Len(Returns) : Returns[i] # Returns[1]

\* sharpe_ratio: np.mean(returns) / np.std(returns) is irrational in
\* general and is kept as the quotient's description; np.std divides by
\* n - ddof with ddof = 0
SharpeRatio ==
    IF Len(SellTrades) > 1 /\ StdPositive
    THEN [mean_over_std |-> Returns, ddof |-> 0]
    ELSE Zero

NoTradeClosed == SellTrades = <<>>

\* if not self.trades
NoTradeRecorded == trades = <<>>

\* the value get_performance_metrics returns
PerformanceMetrics ==
    IF NoTradeRecorded THEN [error |-> NoTradesText]
    ELSE IF initial_capital = 0
    THEN ZeroDivisionError      \* total_return / self.initial_capital, l.172
    ELSE [initial_capital |-> initial_capital,
          final_capital |-> FinalCapital,
          total_return |-> TotalReturn,
          total_return_pct |-> TotalReturnPct,
          total_trades |-> total_trades,
          winning_trades |-> winning_trades,
          losing_trades |-> losing_trades,
          win_rate |-> WinRate,
          avg_profit |-> MeanOrZero(Profits),
          avg_loss |-> MeanOrZero(Losses),
          profit_factor |-> ProfitFactor,
          max_profit |-> MaxProfit,
          max_loss |-> MaxLoss,
          max_drawdown |-> MaxDrawdown,
          sharpe_ratio |-> SharpeRatio]

get_performance_metrics_draining ==
    /\ call' = [op |-> "get_performance_metrics", ret |-> PerformanceMetrics]
    /\ equity_curve' = <<>>
    /\ UNCHANGED <<initial_capital, commission, slippage, capital, position,
                   position_value, entry_price, trades,
                   total_trades, winning_trades, losing_trades>>

\* BacktestEngine.get_performance_metrics()
get_performance_metrics ==
    /\ call' = [op |-> "get_performance_metrics", ret |-> PerformanceMetrics]
    /\ UNCHANGED <<initial_capital, commission, slippage, capital, position,
                   position_value, entry_price, trades, equity_curve,
                   total_trades, winning_trades, losing_trades>>

ExecuteTrade ==
    /\ Len(trades) < MaxTrades
    /\ \E timestamp \in Timestamps, signal \in Signals,
          price \in Prices, quantity \in Quantities :
           execute_trade(timestamp, signal, price, quantity)

UpdateEquity ==
    /\ Len(equity_curve) < MaxEquityPoints
    /\ \E timestamp \in Timestamps, current_price \in Prices :
           update_equity(timestamp, current_price)

GetPerformanceMetrics == get_performance_metrics

-----------------------------------------------------------------------------
(* Texts.  A Python str is a sequence of code points.                      *)

None == <<-1>>          \* Python's None, where a text is expected

\* "達到每日虧損限制: "
DailyLossPrefix == <<36948, 21040, 27599, 26085, 34407, 25613, 38480, 21046, 58, 32>>
\* "連續虧損 "
ConsecutivePrefix == <<36899, 32396, 34407, 25613, 32>>
\* " 次"
ConsecutiveSuffix == <<32, 27425>>
\* "熔斷啟動: "
BreakerPrefix == <<29076, 26039, 21855, 21205, 58, 32>>
\* "緊急停止已啟動"
EmergencyText == <<32202, 24613, 20572, 27490, 24050, 21855, 21205>>
\* "餘額不足: $"
BalancePrefix == <<39192, 38989, 19981, 36275, 58, 32, 36>>
\* "daily"
DailyWord == <<100, 97, 105, 108, 121>>

\* str(n) for an integer n
RECURSIVE Digits(_)
Digits(n) ==
    IF n < 0 THEN <<45>> \o Digits(-n)
    ELSE IF n < 10 THEN <<48 + n>>
    ELSE Digits(n \div 10) \o <<48 + (n % 10)>>

\* f"{num/den:.2f}" for den > 0: two decimals, rounded to nearest
Fixed2(num, den) ==
    LET h == (2 * Abs(num) * 100 + den) \div (2 * den)    \* hundredths
    IN  (IF num < 0 /\ h > 0 THEN <<45>> ELSE <<>>)
        \o Digits(h \div 100) \o <<46>>
        \o <<48 + ((h \div 10) % 10), 48 + (h % 10)>>

\* str.lower(); the texts of the program hold ASCII and CJK code points only
Lower(text) ==
    [i \in 1..Len(text) |->
        IF text[i] >= 65 /\ text[i] <= 90 THEN text[i] + 32 ELSE text[i]]

\* word in text
Contains(text, word) ==
    \E i \in 1..(Len(text) - Len(word) + 1) :
        SubSeq(text, i, i + Len(word) - 1) = word

-----------------------------------------------------------------------------
(* RiskManager *)

PctDen == 100           \* the configured fractions are in 1/PctDen
StrengthDen == 2        \* signal strengths are in 1/StrengthDen

RiskInitWith(cfg) ==
    /\ config = cfg
    /\ initial_balance = 0
    /\ current_balance = 0
    /\ equity = 0
    /\ daily_start_balance = 0
    /\ daily_pnl = 0
    /\ today = 0
    /\ last_reset_date = today
    /\ consecutive_losses = 0
    /\ circuit_breaker_active = FALSE
    /\ circuit_breaker_reason = None
    /\ open_positions = <<>>
    /\ rcall = [op |-> "init"]

initializeFresh(balance) ==
    /\ initial_balance' = balance
    /\ current_balance' = balance
    /\ equity' = balance
    /\ daily_start_balance' = balance
    /\ circuit_breaker_active' = FALSE
    /\ circuit_breaker_reason' = None
    /\ rcall' = [op |-> "initialize", balance |-> balance]
    /\ UNCHANGED <<config, daily_pnl, last_reset_date, consecutive_losses,
                   open_positions, today>>

initializeNewDay(balance) ==
    /\ initial_balance' = balance
    /\ current_balance' = balance
    /\ equity' = balance
    /\ daily_start_balance' = balance
    /\ daily_pnl' = 0
    /\ rcall' = [op |-> "initialize", balance |-> balance]
    /\ UNCHANGED <<config, last_reset_date, consecutive_losses,
                   circuit_breaker_active, circuit_breaker_reason,
                   open_positions, today>>

\* RiskManager.initialize(balance)
initialize(balance) ==
    /\ initial_balance' = balance
    /\ current_balance' = balance
    /\ equity' = balance
    /\ daily_start_balance' = balance
    /\ rcall' = [op |-> "initialize", balance |-> balance]
    /\ UNCHANGED <<config, daily_pnl, last_reset_date, consecutive_losses,
                   circuit_breaker_active, circuit_breaker_reason,
                   open_positions, today>>

\* today > self.last_reset_date, for the date read from the clock
ResetDueOn(date) == date > last_reset_date

\* today = datetime.now().date(); if today > self.last_reset_date
DailyResetDue == ResetDueOn(today)

ReasonIsAny(reason) == TRUE

\* 'daily' in self.circuit_breaker_reason.lower()
ReasonIsDaily(reason) == Contains(Lower(reason), DailyWord)

\* the breaker after _check_daily_reset's "if self.circuit_breaker_active
\* and 'daily' in ...": reset_circuit_breaker() when it holds
ResetClearsBreaker ==
    circuit_breaker_active /\ ReasonIsDaily(circuit_breaker_reason)

\* RiskManager._check_daily_reset(), run with current_balance already set
\* to balance
check_daily_reset(balance) ==
    IF DailyResetDue
    THEN /\ daily_start_balance' = balance
         /\ daily_pnl' = 0
         /\ last_reset_date' = today
         /\ IF ResetClearsBreaker
            THEN /\ circuit_breaker_active' = FALSE
                 /\ circuit_breaker_reason' = None
            ELSE UNCHANGED <<circuit_breaker_active, circuit_breaker_reason>>
    ELSE UNCHANGED <<daily_start_balance, daily_pnl, last_reset_date,
                     circuit_breaker_active, circuit_breaker_reason>>

\* RiskManager.update_balance(balance, equity=None); eq = None stands for
\* the omitted argument
update_balance(balance, eq) ==
    /\ current_balance' = balance
    /\ equity' = IF eq # None THEN eq[1] ELSE balance
    /\ check_daily_reset(balance)
    /\ rcall' = [op |-> "update_balance", balance |-> balance, equity |-> eq]
    /\ UNCHANGED <<config, initial_balance, consecutive_losses,
                   open_positions, today>>

\* RiskManager._calculate_total_exposure()
RECURSIVE SumValues(_, _)
SumValues(positions, symbols) ==
    IF symbols = {} THEN 0
    ELSE LET s == CHOOSE x \in symbols : TRUE
         IN  positions[s].value + SumValues(positions, symbols \ {s})

calculate_total_exposure == SumValues(open_positions, DOMAIN open_positions)

NoSize == [amount |-> Zero, quantity |-> Zero]

EmergencyStopIgnored == FALSE

\* self.config.get('emergency_stop', False)
EmergencyStop == config.emergency_stop

BalanceBelowMinimum == current_balance < config.min_account_balance

\* if available_balance <= min_balance
BalanceTooLow == current_balance <= config.min_account_balance

\* if current_exposure >= max_total_exposure * self.equity
ExposureReached ==
    calculate_total_exposure * PctDen >= config.max_total_exposure * equity

\* the value of RiskManager.calculate_position_size(price, signal_strength);
\* strength is in 1/StrengthDen
PositionSize(price, strength) ==
    IF circuit_breaker_active THEN NoSize
    ELSE IF EmergencyStop THEN NoSize
    ELSE IF BalanceTooLow THEN NoSize
    ELSE IF ExposureReached
         THEN IF equity = 0
              THEN ZeroDivisionError    \* current_exposure/self.equity, l.138
              ELSE NoSize
    ELSE IF price = 0 THEN ZeroDivisionError    \* position_amount / price
    ELSE [amount |-> Frac(current_balance * config.max_position_size * strength,
                          PctDen * StrengthDen),
          quantity |-> Frac(current_balance * config.max_position_size * strength,
                            PctDen * StrengthDen * price)]

calculate_position_size(price, strength) ==
    /\ rcall' = [op |-> "calculate_position_size", price |-> price,
                 strength |-> strength, ret |-> PositionSize(price, strength)]
    /\ UNCHANGED <<config, initial_balance, current_balance, equity,
                   daily_start_balance, daily_pnl, last_reset_date,
                   consecutive_losses, circuit_breaker_active,
                   circuit_breaker_reason, open_positions, today>>

calculate_stop_loss_above(price, side) ==
    price * (PctDen + config.stop_loss_pct)

\* RiskManager.calculate_stop_loss(entry_price, side), in 1/PctDen
calculate_stop_loss(price, side) ==
    IF side = "long" THEN price * (PctDen - config.stop_loss_pct)
                     ELSE price * (PctDen + config.stop_loss_pct)

\* RiskManager.calculate_take_profit(entry_price, side), in 1/PctDen
calculate_take_profit(price, side) ==
    IF side = "long" THEN price * (PctDen + config.take_profit_pct)
                     ELSE price * (PctDen - config.take_profit_pct)

\* daily_loss_pct >= max_daily_loss_pct, with
\* daily_loss_pct = daily_loss / daily_start_balance if daily_start_balance > 0 else 0
DailyLossReached ==
    IF daily_start_balance > 0
    THEN (daily_start_balance - current_balance) * PctDen
             >= config.max_daily_loss * daily_start_balance
    ELSE 0 >= config.max_daily_loss

\* f"達到每日虧損限制: {daily_loss_pct*100:.2f}%"
DailyLossReason ==
    DailyLossPrefix
    \o (IF daily_start_balance > 0
        THEN Fixed2((daily_start_balance - current_balance) * 100,
                    daily_start_balance)
        ELSE Fixed2(0, 1))
    \o <<37>>

\* f"連續虧損 {self.consecutive_losses} 次"
ConsecutiveReason(n) == ConsecutivePrefix \o Digits(n) \o ConsecutiveSuffix

DenialBalanceFirst ==
    IF BalanceTooLow THEN "balance"
    ELSE IF circuit_breaker_active THEN "breaker"
    ELSE IF EmergencyStop THEN "emergency"
    ELSE IF DailyLossReached THEN "daily"
    ELSE "none"

\* which check of check_trade_allowed answers: the first that fails
Denial ==
    IF circuit_breaker_active THEN "breaker"
    ELSE IF EmergencyStop THEN "emergency"
    ELSE IF BalanceTooLow THEN "balance"
    ELSE IF DailyLossReached THEN "daily"
    ELSE "none"

\* the value of RiskManager.check_trade_allowed()
TradeAllowed ==
    CASE Denial = "breaker" ->
            [allowed |-> FALSE, reason |-> BreakerPrefix \o circuit_breaker_reason]
      [] Denial = "emergency" ->
            [allowed |-> FALSE, reason |-> EmergencyText]
      [] Denial = "balance" ->
            [allowed |-> FALSE,
             reason |-> BalancePrefix \o Fixed2(current_balance, 1)]
      [] Denial = "daily" ->
            [allowed |-> FALSE, reason |-> DailyLossReason]
      [] OTHER -> [allowed |-> TRUE, reason |-> None]

check_trade_allowed_only ==
    /\ rcall' = [op |-> "check_trade_allowed", ret |-> TradeAllowed]
    /\ UNCHANGED <<config, initial_balance, current_balance, equity,
                   daily_start_balance, daily_pnl, last_reset_date,
                   consecutive_losses, circuit_breaker_active,
                   circuit_breaker_reason, open_positions, today>>

\* RiskManager.check_trade_allowed()
check_trade_allowed ==
    /\ rcall' = [op |-> "check_trade_allowed", ret |-> TradeAllowed]
    /\ IF Denial = "daily"
       THEN /\ circuit_breaker_active' = TRUE        \* _activate_circuit_breaker
            /\ circuit_breaker_reason' = DailyLossReason
       ELSE UNCHANGED <<circuit_breaker_active, circuit_breaker_reason>>
    /\ UNCHANGED <<config, initial_balance, current_balance, equity,
                   daily_start_balance, daily_pnl, last_reset_date,
                   consecutive_losses, open_positions, today>>

LossLimitExceeded(losses) == losses > config.max_consecutive_losses

\* if self.consecutive_losses >= self.max_consecutive_losses
LossLimitReached(losses) == losses >= config.max_consecutive_losses

\* consecutive_losses after record_trade_result(pnl, is_win)
LossesAfter(is_win) == IF is_win THEN 0 ELSE consecutive_losses + 1

\* RiskManager.record_trade_result(pnl, is_win)
record_trade_result(pnl, is_win) ==
    /\ daily_pnl' = daily_pnl + pnl
    /\ consecutive_losses' = LossesAfter(is_win)
    /\ IF ~is_win /\ LossLimitReached(LossesAfter(is_win))
       THEN /\ circuit_breaker_active' = TRUE        \* _activate_circuit_breaker
            /\ circuit_breaker_reason' = ConsecutiveReason(LossesAfter(is_win))
       ELSE UNCHANGED <<circuit_breaker_active, circuit_breaker_reason>>
    /\ rcall' = [op |-> "record_trade_result", pnl |-> pnl, is_win |-> is_win]
    /\ UNCHANGED <<config, initial_balance, current_balance, equity,
                   daily_start_balance, last_reset_date, open_positions, today>>

reset_circuit_breaker_keeping_reason ==
    /\ circuit_breaker_active' = FALSE
    /\ rcall' = [op |-> "reset_circuit_breaker"]
    /\ UNCHANGED <<config, initial_balance, current_balance, equity,
                   daily_start_balance, daily_pnl, last_reset_date,
                   consecutive_losses, circuit_breaker_reason,
                   open_positions, today>>

reset_circuit_breaker_clearing_losses ==
    /\ circuit_breaker_active' = FALSE
    /\ circuit_breaker_reason' = None
    /\ consecutive_losses' = 0
    /\ rcall' = [op |-> "reset_circuit_breaker"]
    /\ UNCHANGED <<config, initial_balance, current_balance, equity,
                   daily_start_balance, daily_pnl, last_reset_date,
                   open_positions, today>>

\* RiskManager.reset_circuit_breaker()
reset_circuit_breaker ==
    /\ IF circuit_breaker_active
       THEN /\ circuit_breaker_active' = FALSE
            /\ circuit_breaker_reason' = None
       ELSE UNCHANGED <<circuit_breaker_active, circuit_breaker_reason>>
    /\ rcall' = [op |-> "reset_circuit_breaker"]
    /\ UNCHANGED <<config, initial_balance, current_balance, equity,
                   daily_start_balance, daily_pnl, last_reset_date,
                   consecutive_losses, open_positions, today>>

add_position_fresh_book(symbol, side, quantity, price) ==
    /\ open_positions' =
          [s \in {symbol} |->
              [side |-> side, quantity |-> quantity,
               entry_price |-> price, value |-> quantity * price,
               stop_loss |-> calculate_stop_loss(price, side),
               take_profit |-> calculate_take_profit(price, side)]]
    /\ rcall' = [op |-> "add_position", symbol |-> symbol]
    /\ UNCHANGED <<config, initial_balance, current_balance, equity,
                   daily_start_balance, daily_pnl, last_reset_date,
                   consecutive_losses, circuit_breaker_active,
                   circuit_breaker_reason, today>>

\* RiskManager.add_position(symbol, side, quantity, entry_price); the stored
\* wall-clock 'timestamp', which RiskManager never reads, is left out
add_position(symbol, side, quantity, price) ==
    /\ open_positions' =
          [s \in (DOMAIN open_positions) \cup {symbol} |->
              IF s = symbol
              THEN [side |-> side, quantity |-> quantity,
                    entry_price |-> price, value |-> quantity * price,
                    stop_loss |-> calculate_stop_loss(price, side),
                    take_profit |-> calculate_take_profit(price, side)]
              ELSE open_positions[s]]
    /\ rcall' = [op |-> "add_position", symbol |-> symbol]
    /\ UNCHANGED <<config, initial_balance, current_balance, equity,
                   daily_start_balance, daily_pnl, last_reset_date,
                   consecutive_losses, circuit_breaker_active,
                   circuit_breaker_reason, today>>

\* RiskManager.remove_position(symbol)
remove_position(symbol) ==
    /\ open_positions' =
          [s \in (DOMAIN open_positions) \ {symbol} |-> open_positions[s]]
    /\ rcall' = [op |-> "remove_position", symbol |-> symbol]
    /\ UNCHANGED <<config, initial_balance, current_balance, equity,
                   daily_start_balance, daily_pnl, last_reset_date,
                   consecutive_losses, circuit_breaker_active,
                   circuit_breaker_reason, today>>

\* x / base if base > 0 else 0
RatioOrZero(x, base) == IF base > 0 THEN Frac(x, base) ELSE Zero

\* the value of RiskManager.get_risk_report(); the timestamp is the clock's
\* date, its time of day is left out
RiskReport ==
    [timestamp |-> today,
     current_balance |-> current_balance,
     equity |-> equity,
     daily_pnl |-> daily_pnl,
     daily_loss_pct |->
         RatioOrZero(daily_start_balance - current_balance, daily_start_balance),
     total_pnl |-> current_balance - initial_balance,
     total_pnl_pct |->
         RatioOrZero(current_balance - initial_balance, initial_balance),
     consecutive_losses |-> consecutive_losses,
     circuit_breaker_active |-> circuit_breaker_active,
     circuit_breaker_reason |-> circuit_breaker_reason,
     open_positions_count |-> Cardinality(DOMAIN open_positions),
     total_exposure |-> calculate_total_exposure]

get_risk_report_tripping ==
    /\ rcall' = [op |-> "get_risk_report", ret |-> RiskReport]
    /\ IF DailyLossReached /\ ~circuit_breaker_active
       THEN /\ circuit_breaker_active' = TRUE
            /\ circuit_breaker_reason' = DailyLossReason
       ELSE UNCHANGED <<circuit_breaker_active, circuit_breaker_reason>>
    /\ UNCHANGED <<config, initial_balance, current_balance, equity,
                   daily_start_balance, daily_pnl, last_reset_date,
                   consecutive_losses, open_positions, today>>

\* RiskManager.get_risk_report()
get_risk_report ==
    /\ rcall' = [op |-> "get_risk_report", ret |-> RiskReport]
    /\ UNCHANGED <<config, initial_balance, current_balance, equity,
                   daily_start_balance, daily_pnl, last_reset_date,
                   consecutive_losses, circuit_breaker_active,
                   circuit_breaker_reason, open_positions, today>>

\* the calendar date advances (the environment's step)
AdvanceDay(maxDay) ==
    /\ today < maxDay
    /\ today' = today + 1
    /\ UNCHANGED <<config, initial_balance, current_balance, equity,
                   daily_start_balance, daily_pnl, last_reset_date,
                   consecutive_losses, circuit_breaker_active,
                   circuit_breaker_reason, open_positions, rcall>>

-----------------------------------------------------------------------------
(* GridTradingStrategy (src/strategies/grid_trading.py).  The bars passed  *)
(* to generate_signal are read for their number and their last close       *)
(* only (the volatility feeds a warning and the info); a call is modelled  *)
(* with those two.  price_range and profit_per_grid are in 1/PctDen; grid  *)
(* prices are in 1/(PctDen * grid_levels) of a price unit and target       *)
(* prices in 1/(PctDen^2 * grid_levels).                                   *)

GridStrategyInitWith(cfg) ==
    /\ grid_levels = cfg.grid_levels
    /\ price_range = cfg.price_range
    /\ profit_per_grid = cfg.profit_per_grid
    /\ base_price = cfg.base_price
    /\ grids = <<>>
    /\ grid_positions = <<>>
    /\ gcall = [op |-> "init"]

\* the grid prices are in 1/GridUnit
GridUnit == PctDen * grid_levels

\* the grids of setup_grids for this base price:
\* lower_price + grid_size * i for i in range(grid_levels + 1)
GridsFrom(base) ==
    [k \in 1..(grid_levels + 1) |->
        [level |-> k - 1,
         price |-> base * (PctDen - price_range) * grid_levels
                      + base * 2 * price_range * (k - 1),
         type |-> IF 2 * (k - 1) < grid_levels THEN "buy" ELSE "sell"]]

\* self.base_price after setup_grids(current_price)
BaseAfterSetup(current_price) ==
    IF base_price = None THEN <<current_price>> ELSE base_price

\* the first grid of the loop `for i, grid in enumerate(self.grids)` that
\* buys or sells, from the k-th on; price is in 1/GridUnit
RECURSIVE Triggered(_, _, _)
Triggered(gs, price, k) ==
    IF k > Len(gs) THEN [action |-> "none", level |-> -1]
    ELSE IF price <= gs[k].price /\ (k - 1) \notin DOMAIN grid_positions
    THEN IF 2 * (k - 1) < Len(gs)
         THEN [action |-> "buy", level |-> k - 1]
         ELSE Triggered(gs, price, k + 1)
    ELSE IF /\ (k - 1) \in DOMAIN grid_positions
            /\ price * PctDen >= grid_positions[k - 1].target_price
    THEN [action |-> "sell", level |-> k - 1]
    ELSE Triggered(gs, price, k + 1)

\* strength = 0.5 + (0.5 * (1 - i / (len(self.grids) / 2)))
BuyStrength(i, n) == Frac(n - i, n)

\* the signal and strength the loop leaves
LoopSignal(trigger, n) ==
    CASE trigger.action = "buy" ->
            [signal |-> "long", strength |-> BuyStrength(trigger.level, n)]
      [] trigger.action = "sell" ->
            [signal |-> "close", strength |-> Frac(3, 4)]
      [] OTHER -> [signal |-> "hold", strength |-> Frac(1, 2)]

\* info['forced_close'] of a price outside the grid range
ForcedClose(price, gs) ==
    IF price > gs[Len(gs)].price THEN "upper_breakout"
    ELSE IF price < gs[1].price THEN "lower_breakout"
    ELSE "none"

\* GridTradingStrategy.generate_signal(data), for data with enough bars
\* or not and the last close current_price
generate_signal(enough, current_price) ==
    IF ~enough
    THEN /\ gcall' = [op |-> "generate_signal", enough |-> enough,
                      current_price |-> current_price,
                      ret |-> [signal |-> "hold", strength |-> Zero],
                      action |-> "none", forced_close |-> "none"]
         /\ UNCHANGED <<grid_levels, price_range, profit_per_grid,
                        base_price, grids, grid_positions>>
    ELSE LET base == IF grids = <<>> THEN BaseAfterSetup(current_price)
                                     ELSE base_price
             gs == IF grids = <<>> THEN GridsFrom(base[1]) ELSE grids
             price == current_price * GridUnit
             trigger == Triggered(gs, price, 1)
             forced == ForcedClose(price, gs)
             loop == LoopSignal(trigger, Len(gs))
         IN  /\ base_price' = base
             /\ grids' = gs
             /\ grid_positions' =
                   CASE trigger.action = "buy" ->
                          [i \in DOMAIN grid_positions \cup {trigger.level} |->
                              IF i = trigger.level
                              THEN [entry_price |-> current_price,
                                    target_price |->
                                        gs[i + 1].price * (PctDen + profit_per_grid)]
                              ELSE grid_positions[i]]
                     [] trigger.action = "sell" ->
                          [i \in DOMAIN grid_positions \ {trigger.level} |->
                              grid_positions[i]]
                     [] OTHER -> grid_positions
             /\ gcall' = [op |-> "generate_signal", enough |-> enough,
                          current_price |-> current_price,
                          ret |-> IF forced # "none"
                                  THEN [signal |-> "close", strength |-> Frac(1, 1)]
                                  ELSE loop,
                          action |-> trigger.action, forced_close |-> forced]
             /\ UNCHANGED <<grid_levels, price_range, profit_per_grid>>

\* GridTradingStrategy.reset_grids(new_base_price=None)
reset_grids ==
    /\ grids' = <<>>
    /\ grid_positions' = <<>>
    /\ base_price' = None
    /\ gcall' = [op |-> "reset_grids"]
    /\ UNCHANGED <<grid_levels, price_range, profit_per_grid>>

-----------------------------------------------------------------------------
(* Specifications *)

\* the options of config_settings / risk_manager.py's defaults, in 1/PctDen
DefaultConfig ==
    [max_position_size |-> 10, max_total_exposure |-> 50,
     stop_loss_pct |-> 2, take_profit_pct |-> 4, max_daily_loss |-> 5,
     max_consecutive_losses |-> 3, min_account_balance |-> 0,
     emergency_stop |-> FALSE]

\* the options of the grid strategy in every run: four grid levels over
\* +-50% of the first close, a profit of 1% per grid
GridConfig ==
    [grid_levels |-> 4, price_range |-> 50, profit_per_grid |-> 1,
     base_price |-> None]

\* ---- the engine alone, for every commission and slippage rate
EngineInit ==
    /\ \E cm \in CommissionRates, sl \in SlippageRates :
           EngineInitWith(InitialCapital * MoneyDen, cm, sl)
    /\ RiskInitWith(DefaultConfig)
    /\ streak = 0
    /\ GridStrategyInitWith(GridConfig)

EngineExecuteTrade == ExecuteTrade /\ UNCHANGED <<riskVars, gridVars, streak>>

EngineUpdateEquity == UpdateEquity /\ UNCHANGED <<riskVars, gridVars, streak>>

EngineGetPerformanceMetrics ==
    GetPerformanceMetrics /\ UNCHANGED <<riskVars, gridVars, streak>>

EngineNext ==
    \/ EngineExecuteTrade
    \/ EngineUpdateEquity
    \/ EngineGetPerformanceMetrics

EngineSpec == EngineInit /\ [][EngineNext]_vars

\* ---- the risk manager alone: balances, trade results, the breaker, days
MaxBalance == 2         \* balances 0..MaxBalance
MaxLossLimit == 2       \* max_consecutive_losses 1..MaxLossLimit
MaxDay == 1             \* the calendar runs over days 0..MaxDay

MaxLosses == MaxLossLimit + 1   \* cap on consecutive_losses
MaxDailyPnl == MaxLossLimit     \* cap on |daily_pnl|

Balances == 0..MaxBalance

RiskConfigs ==
    {[DefaultConfig EXCEPT !.max_consecutive_losses = n] : n \in 1..MaxLossLimit}

RiskInit ==
    /\ EngineInitWith(InitialCapital * MoneyDen, 0, 0)
    /\ \E cfg \in RiskConfigs : RiskInitWith(cfg)
    /\ streak = 0
    /\ GridStrategyInitWith(GridConfig)

Initialize ==
    /\ \E balance \in Balances : initialize(balance)
    /\ UNCHANGED <<engineVars, gridVars, streak>>

UpdateBalance ==
    /\ \E balance \in Balances : update_balance(balance, None)
    /\ UNCHANGED <<engineVars, gridVars, streak>>

\* callers report a result consistently: is_win exactly when pnl > 0
RecordTradeResult ==
    /\ \E is_win \in BOOLEAN, pnl \in {-1, 1} :
           /\ is_win <=> pnl > 0
           /\ Abs(daily_pnl + pnl) <= MaxDailyPnl
           /\ is_win \/ consecutive_losses < MaxLosses
           /\ record_trade_result(pnl, is_win)
           /\ streak' = IF is_win THEN 0 ELSE streak + 1
    /\ UNCHANGED <<engineVars, gridVars>>

CheckTradeAllowed == check_trade_allowed /\ UNCHANGED <<engineVars, gridVars, streak>>

ResetCircuitBreaker == reset_circuit_breaker /\ UNCHANGED <<engineVars, gridVars, streak>>

CalculatePositionSize ==
    /\ calculate_position_size(1, StrengthDen)
    /\ UNCHANGED <<engineVars, gridVars, streak>>

AddPosition ==
    /\ add_position("BTC", "long", 1, 1)
    /\ UNCHANGED <<engineVars, gridVars, streak>>

RemovePosition == remove_position("BTC") /\ UNCHANGED <<engineVars, gridVars, streak>>

GetRiskReport == get_risk_report /\ UNCHANGED <<engineVars, gridVars, streak>>

Tick == AdvanceDay(MaxDay) /\ UNCHANGED <<engineVars, gridVars, streak>>

RiskNext ==
    \/ Initialize
    \/ UpdateBalance
    \/ RecordTradeResult
    \/ CheckTradeAllowed
    \/ ResetCircuitBreaker
    \/ CalculatePositionSize
    \/ AddPosition
    \/ RemovePosition
    \/ GetRiskReport
    \/ Tick

RiskSpec == RiskInit /\ [][RiskNext]_vars

\* ---- the risk manager's gates: allowance and sizing, for every
\* emergency_stop flag, over balances, equities, prices and strengths
ExposureLimits == {50, 100}     \* max_total_exposure, in 1/PctDen
Strengths == 0..StrengthDen     \* signal_strength 0, 0.5 and 1

GateConfigs ==
    {[DefaultConfig EXCEPT !.emergency_stop = e, !.max_total_exposure = x] :
        e \in BOOLEAN, x \in ExposureLimits}

GateInit ==
    /\ EngineInitWith(InitialCapital * MoneyDen, 0, 0)
    /\ \E cfg \in GateConfigs : RiskInitWith(cfg)
    /\ streak = 0
    /\ GridStrategyInitWith(GridConfig)

\* update_balance(balance) and update_balance(balance, equity)
GateUpdateBalance ==
    /\ \E balance \in Balances, eq \in {None} \cup {<<e>> : e \in Balances} :
           update_balance(balance, eq)
    /\ UNCHANGED <<engineVars, gridVars, streak>>

GateCalculatePositionSize ==
    /\ \E price \in Prices, strength \in Strengths :
           calculate_position_size(price, strength)
    /\ UNCHANGED <<engineVars, gridVars, streak>>

GateNext ==
    \/ Initialize
    \/ GateUpdateBalance
    \/ CheckTradeAllowed
    \/ ResetCircuitBreaker
    \/ GateCalculatePositionSize
    \/ AddPosition
    \/ RemovePosition

GateSpec == GateInit /\ [][GateNext]_vars

\* ---- the engine over longer runs: several equity points and round
\* trips, for the statistics of get_performance_metrics
MaxCurveTrades == 4     \* length of the trades list
MaxCurvePoints == 3     \* length of the equity curve

\* with and without a commission, no slippage
CurveInit ==
    /\ \E cm \in CommissionRates :
           EngineInitWith(InitialCapital * MoneyDen, cm, 0)
    /\ RiskInitWith(DefaultConfig)
    /\ streak = 0
    /\ GridStrategyInitWith(GridConfig)

\* the signals that trade, each for one unit
CurveExecuteTrade ==
    /\ Len(trades) < MaxCurveTrades
    /\ \E timestamp \in Timestamps, signal \in {"long", "close"},
          price \in Prices :
           execute_trade(timestamp, signal, price, 1)
    /\ UNCHANGED <<riskVars, gridVars, streak>>

CurveUpdateEquity ==
    /\ Len(equity_curve) < MaxCurvePoints
    /\ \E timestamp \in Timestamps, current_price \in Prices :
           update_equity(timestamp, current_price)
    /\ UNCHANGED <<riskVars, gridVars, streak>>

CurveNext ==
    \/ CurveExecuteTrade
    \/ CurveUpdateEquity
    \/ EngineGetPerformanceMetrics

CurveSpec == CurveInit /\ [][CurveNext]_vars

\* ---- the engine for every configuration the constructor accepts,
\* negative rates and a zero initial capital included
ConfigCapitals == {0, InitialCapital}
ConfigRates == {-1, 0, 1}       \* in 1/RateDen

ConfigInit ==
    /\ \E cap \in ConfigCapitals, cm \in ConfigRates, sl \in ConfigRates :
           EngineInitWith(cap * MoneyDen, cm, sl)
    /\ RiskInitWith(DefaultConfig)
    /\ streak = 0
    /\ GridStrategyInitWith(GridConfig)

ConfigSpec == ConfigInit /\ [][EngineNext]_vars

\* ---- the engine replayed with timestamps in any order
ReplayTimestamps == {1, 2}

ReplayInit ==
    /\ EngineInitWith(InitialCapital * MoneyDen, 1, 0)
    /\ RiskInitWith(DefaultConfig)
    /\ streak = 0
    /\ GridStrategyInitWith(GridConfig)

ReplayExecuteTrade ==
    /\ Len(trades) < MaxTrades
    /\ \E timestamp \in ReplayTimestamps, signal \in Signals,
          price \in Prices, quantity \in Quantities :
           execute_trade(timestamp, signal, price, quantity)
    /\ UNCHANGED <<riskVars, gridVars, streak>>

ReplayUpdateEquity ==
    /\ Len(equity_curve) < MaxEquityPoints
    /\ \E timestamp \in ReplayTimestamps, current_price \in Prices :
           update_equity(timestamp, current_price)
    /\ UNCHANGED <<riskVars, gridVars, streak>>

ReplayNext ==
    \/ ReplayExecuteTrade
    \/ ReplayUpdateEquity

ReplaySpec == ReplayInit /\ [][ReplayNext]_vars

\* ---- the risk manager's book of open positions: two symbols, both sides,
\* for the default and for the widest stop-loss and take-profit percentages
Symbols == {"BTC", "ETH"}
Sides == {"long", "short"}
EntryPrices == 0..MaxPrice

\* stop_loss_pct 0.02 and take_profit_pct 0.04, or 0.99 both
BookConfigs ==
    {[DefaultConfig EXCEPT !.max_consecutive_losses = 1],
     [DefaultConfig EXCEPT !.max_consecutive_losses = 1,
                           !.stop_loss_pct = 99, !.take_profit_pct = 99]}

BookInit ==
    /\ EngineInitWith(InitialCapital * MoneyDen, 0, 0)
    /\ \E cfg \in BookConfigs : RiskInitWith(cfg)
    /\ streak = 0
    /\ GridStrategyInitWith(GridConfig)

\* RiskManager.calculate_stop_loss(entry_price, side), called on its own
CalculateStopLoss ==
    /\ \E price \in EntryPrices, side \in Sides :
           rcall' = [op |-> "calculate_stop_loss", entry_price |-> price,
                     side |-> side, ret |-> calculate_stop_loss(price, side)]
    /\ UNCHANGED <<config, initial_balance, current_balance, equity,
                   daily_start_balance, daily_pnl, last_reset_date,
                   consecutive_losses, circuit_breaker_active,
                   circuit_breaker_reason, open_positions, today>>
    /\ UNCHANGED <<engineVars, gridVars, streak>>

\* RiskManager.calculate_take_profit(entry_price, side), called on its own
CalculateTakeProfit ==
    /\ \E price \in EntryPrices, side \in Sides :
           rcall' = [op |-> "calculate_take_profit", entry_price |-> price,
                     side |-> side, ret |-> calculate_take_profit(price, side)]
    /\ UNCHANGED <<config, initial_balance, current_balance, equity,
                   daily_start_balance, daily_pnl, last_reset_date,
                   consecutive_losses, circuit_breaker_active,
                   circuit_breaker_reason, open_positions, today>>
    /\ UNCHANGED <<engineVars, gridVars, streak>>

BookUpdateBalance ==
    /\ \E balance \in {0, 1} : update_balance(balance, None)
    /\ UNCHANGED <<engineVars, gridVars, streak>>

BookRecordLoss ==
    /\ consecutive_losses < 1
    /\ record_trade_result(-1, FALSE)
    /\ streak' = streak + 1
    /\ UNCHANGED <<engineVars, gridVars>>

BookAddPosition ==
    /\ \E symbol \in Symbols, side \in Sides, price \in EntryPrices :
           add_position(symbol, side, 1, price)
    /\ UNCHANGED <<engineVars, gridVars, streak>>

BookRemovePosition ==
    /\ \E symbol \in Symbols : remove_position(symbol)
    /\ UNCHANGED <<engineVars, gridVars, streak>>

BookNext ==
    \/ BookUpdateBalance
    \/ BookRecordLoss
    \/ CheckTradeAllowed
    \/ CalculatePositionSize
    \/ BookAddPosition
    \/ BookRemovePosition
    \/ CalculateStopLoss
    \/ CalculateTakeProfit
    \/ Tick

BookSpec == BookInit /\ [][BookNext]_vars

\* ---- the risk manager sizing every position it opens: each add_position
\* takes its quantity and price from the sizing call before it; the balance
\* and the equity stay at ExposureBalance
ExposureBalance == 20   \* the balance and the equity of the run
ExposureSymbols == {"BTC", "ETH", "SOL"}
PositionSizes == {10, 20}       \* max_position_size, in 1/PctDen

ExposureConfigs ==
    {[DefaultConfig EXCEPT !.max_position_size = p] : p \in PositionSizes}

ExposureInit ==
    /\ EngineInitWith(InitialCapital * MoneyDen, 0, 0)
    /\ \E cfg \in ExposureConfigs : RiskInitWith(cfg)
    /\ streak = 0
    /\ GridStrategyInitWith(GridConfig)

ExposureInitialize ==
    /\ initialize(ExposureBalance)
    /\ UNCHANGED <<engineVars, gridVars, streak>>

ExposureCalculatePositionSize ==
    /\ \E price \in Prices, strength \in Strengths :
           calculate_position_size(price, strength)
    /\ UNCHANGED <<engineVars, gridVars, streak>>

\* the last call sized a position: it returned a positive amount
Sized ==
    /\ rcall.op = "calculate_position_size"
    /\ rcall.ret # ZeroDivisionError
    /\ rcall.ret.amount.num > 0

\* add_position(symbol, 'long', quantity, price) with the quantity and the
\* price of the sizing call, whenever that quantity is a whole number
ExposureAddPosition ==
    /\ Sized
    /\ rcall.ret.quantity.den = 1
    /\ \E symbol \in ExposureSymbols :
           add_position(symbol, "long", rcall.ret.quantity.num, rcall.price)
    /\ UNCHANGED <<engineVars, gridVars, streak>>

ExposureNext ==
    \/ ExposureInitialize
    \/ ExposureCalculatePositionSize
    \/ ExposureAddPosition

ExposureSpec == ExposureInit /\ [][ExposureNext]_vars

\* ---- the risk manager on which initialize is never called, for every
\* emergency_stop flag, a min_account_balance of 0 or 1 and a max_daily_loss
\* of 0 or 0.05
FreshConfigs ==
    {[DefaultConfig EXCEPT !.emergency_stop = e, !.min_account_balance = m,
                           !.max_daily_loss = d, !.max_consecutive_losses = 1] :
        e \in BOOLEAN, m \in {0, 1}, d \in {0, 5}}

FreshInit ==
    /\ EngineInitWith(InitialCapital * MoneyDen, 0, 0)
    /\ \E cfg \in FreshConfigs : RiskInitWith(cfg)
    /\ streak = 0
    /\ GridStrategyInitWith(GridConfig)

FreshRecordLoss ==
    /\ consecutive_losses < 1
    /\ record_trade_result(-1, FALSE)
    /\ streak' = streak + 1
    /\ UNCHANGED <<engineVars, gridVars>>

FreshNext ==
    \/ UpdateBalance
    \/ FreshRecordLoss
    \/ CheckTradeAllowed
    \/ ResetCircuitBreaker
    \/ GateCalculatePositionSize
    \/ AddPosition
    \/ RemovePosition
    \/ Tick

FreshSpec == FreshInit /\ [][FreshNext]_vars

\* ---- the engine at the edges of its inputs: an initial capital of 0, a
\* price of 0, a quantity of 0, and commission and slippage both 0 or both
\* 0.999; 'hold' and 'short', which execute nothing, are left out
CashCapitals == {0, InitialCapital}
CashRates == {0, 999}           \* in 1/RateDen
CashPrices == 0..MaxPrice

CashInit ==
    /\ \E cap \in CashCapitals, rate \in CashRates :
           EngineInitWith(cap * MoneyDen, rate, rate)
    /\ RiskInitWith(DefaultConfig)
    /\ streak = 0
    /\ GridStrategyInitWith(GridConfig)

CashExecuteTrade ==
    /\ Len(trades) < MaxTrades
    /\ \E timestamp \in Timestamps, signal \in {"long", "close"},
          price \in CashPrices, quantity \in Quantities :
           execute_trade(timestamp, signal, price, quantity)
    /\ UNCHANGED <<riskVars, gridVars, streak>>

CashUpdateEquity ==
    /\ Len(equity_curve) < MaxEquityPoints
    /\ \E timestamp \in Timestamps, current_price \in CashPrices :
           update_equity(timestamp, current_price)
    /\ UNCHANGED <<riskVars, gridVars, streak>>

CashNext ==
    \/ CashExecuteTrade
    \/ CashUpdateEquity

CashSpec == CashInit /\ [][CashNext]_vars

\* ---- the grid strategy alone, over bars with any close
MaxGridPrice == 7       \* closes 1..MaxGridPrice

GridInit ==
    /\ EngineInitWith(InitialCapital * MoneyDen, 0, 0)
    /\ RiskInitWith(DefaultConfig)
    /\ streak = 0
    /\ GridStrategyInitWith(GridConfig)

GenerateSignal ==
    /\ \E enough \in BOOLEAN, current_price \in 1..MaxGridPrice :
           generate_signal(enough, current_price)
    /\ UNCHANGED <<engineVars, riskVars, streak>>

ResetGrids == reset_grids /\ UNCHANGED <<engineVars, riskVars, streak>>

GridNext ==
    \/ GenerateSignal
    \/ ResetGrids

GridSpec == GridInit /\ [][GridNext]_vars

-----------------------------------------------------------------------------
(* Claims about BacktestEngine, checked under EngineSpec *)

Last(seq) == seq[Len(seq)]

\* the step is a call of execute_trade with this signal
ExecuteTradeStep(signal) ==
    /\ call'.op = "execute_trade"
    /\ call'.signal = signal

accountVars == <<capital, position, entry_price, position_value, trades,
                 equity_curve, total_trades, winning_trades, losing_trades>>

\* C1: execute_trade with 'long' while a position is open, with 'close'
\* while flat, or with any other signal ('hold', 'short') appends no trade
\* and leaves capital, position, entry_price, position_value, trades,
\* equity_curve and the three counters unchanged.
C1_NoOpFrame ==
    [][(\/ ExecuteTradeStep("long") /\ position > 0
        \/ ExecuteTradeStep("close") /\ position = 0
        \/ ExecuteTradeStep("hold")
        \/ ExecuteTradeStep("short"))
       => UNCHANGED accountVars]_vars

\* a 'long' call was made while long: the last call's price is not the
\* open position's
C1_Witness ==
    /\ call.op = "execute_trade"
    /\ call.signal = "long"
    /\ position > 0
    /\ Last(trades).type = "buy"
    /\ entry_price # call.price * (RateDen + slippage)

\* C2: the recorded trades strictly alternate buy, sell, buy, ... starting
\* with a buy, and the engine holds a position exactly when the last
\* recorded trade is a buy (prices > 0, quantities >= 0, 0 included).
C2_Alternation ==
    /\ \A i \in 1..Len(trades) :
          trades[i].type = (IF i % 2 = 1 THEN "buy" ELSE "sell")
    /\ (position > 0) <=> (trades # <<>> /\ Last(trades).type = "buy")

\* C4: execute_trade('long', price, quantity) while flat with
\* total_cost <= capital, where execution_price = price * (1 + slippage)
\* and total_cost = quantity * execution_price * (1 + commission): capital
\* decreases by exactly total_cost, position becomes quantity, entry_price
\* becomes execution_price, exactly one buy trade is appended, and its
\* recorded cash equals the capital after the call.
C4_Buy ==
    [][LET execution_price == call'.price * (RateDen + slippage)
           total_cost == call'.quantity * execution_price * (RateDen + commission)
       IN  (ExecuteTradeStep("long") /\ position = 0 /\ total_cost <= capital)
           => /\ capital' = capital - total_cost
              /\ position' = call'.quantity
              /\ entry_price' = execution_price
              /\ Len(trades') = Len(trades) + 1
              /\ SubSeq(trades', 1, Len(trades)) = trades
              /\ Last(trades').type = "buy"
              /\ Last(trades').capital = capital']_vars

\* a buy of a positive quantity, with a fee and slippage, has been executed
C4_Witness ==
    /\ call.op = "execute_trade"
    /\ call.signal = "long"
    /\ commission > 0
    /\ slippage > 0
    /\ Len(trades) = 1
    /\ trades[1].type = "buy"
    /\ trades[1].quantity > 0
    /\ position = trades[1].quantity
    /\ capital < initial_capital

\* C5: execute_trade('close', price, q) while long sells the whole open
\* position whatever q is: with exit_price = price * (1 - slippage) and
\* net_revenue = exit_price * position * (1 - commission), capital grows by
\* exactly net_revenue; position, entry_price and position_value become 0;
\* exactly one sell trade is appended with quantity = the former position,
\* pnl = net_revenue - entry_price * position * (1 + commission) and
\* pnl_pct = pnl / (entry_price * position) * 100; total_trades grows by 1.
C5_Close ==
    [][LET exit_price == call'.price * (RateDen - slippage)
           net_revenue == exit_price * position * (RateDen - commission)
           pnl == net_revenue - entry_price * position * (RateDen + commission)
       IN  (ExecuteTradeStep("close") /\ position > 0)
           => /\ capital' = capital + net_revenue
              /\ position' = 0
              /\ entry_price' = 0
              /\ position_value' = 0
              /\ Len(trades') = Len(trades) + 1
              /\ SubSeq(trades', 1, Len(trades)) = trades
              /\ Last(trades').type = "sell"
              /\ Last(trades').quantity = position
              /\ Last(trades').pnl = pnl
              /\ Last(trades').pnl_pct
                    = Frac(pnl * 100, entry_price * position * RateDen)
              /\ total_trades' = total_trades + 1]_vars

\* a position of quantity > 0 was closed by a call whose quantity argument
\* differs from it
C5_Witness ==
    /\ call.op = "execute_trade"
    /\ call.signal = "close"
    /\ position = 0
    /\ trades # <<>>
    /\ Last(trades).type = "sell"
    /\ Last(trades).price = call.price * (RateDen - slippage)
    /\ Last(trades).quantity # call.quantity
    /\ Last(trades).pnl # 0
    /\ commission > 0

RECURSIVE SumPnl(_)
SumPnl(ts) ==
    IF ts = <<>> THEN 0
    ELSE (IF Last(ts).type = "sell" THEN Last(ts).pnl ELSE 0)
         + SumPnl(SubSeq(ts, 1, Len(ts) - 1))

\* C6: for every sell and the buy that opened its position, capital after
\* the sell minus capital before the buy equals the sell's pnl; and
\* whenever the engine is flat, capital - initial_capital equals the sum of
\* pnl over all recorded sell trades.
C6_CashConservation ==
    /\ \A i \in 1..Len(trades) :
          trades[i].type = "sell"
          => /\ i > 1
             /\ trades[i - 1].type = "buy"
             /\ trades[i].capital - (trades[i - 1].capital + trades[i - 1].cost)
                   = trades[i].pnl
    /\ position = 0 => capital - initial_capital = SumPnl(trades)

\* flat again after a round trip with a fee, slippage and a non-zero pnl
C6_Witness ==
    /\ position = 0
    /\ commission > 0
    /\ slippage > 0
    /\ trades # <<>>
    /\ Last(trades).type = "sell"
    /\ Last(trades).pnl # 0
    /\ capital # initial_capital

\* C15: a 'long' signal while flat whose total_cost = quantity * price *
\* (1 + slippage) * (1 + commission) exceeds capital is skipped: no trade
\* is appended and capital, position, entry_price, position_value and the
\* counters are unchanged, so the engine stays flat; and the 'long' that
\* follows a skipped one is executed when it is affordable.
C15_InsufficientFunds ==
    [][LET total_cost == call'.quantity * call'.price
                           * (RateDen + slippage) * (RateDen + commission)
           skipped == call.quantity * call.price
                        * (RateDen + slippage) * (RateDen + commission)
       IN  /\ (ExecuteTradeStep("long") /\ position = 0 /\ total_cost > capital)
              => /\ UNCHANGED accountVars
                 /\ position' = 0
           /\ (/\ call.op = "execute_trade" /\ call.signal = "long"
               /\ position = 0 /\ skipped > capital
               /\ ExecuteTradeStep("long") /\ total_cost <= capital)
              => /\ Len(trades') = Len(trades) + 1
                 /\ Last(trades').type = "buy"
                 /\ position' = call'.quantity]_vars

\* an unaffordable 'long' was just skipped by a flat engine that has traded
\* nothing yet
C15_Witness ==
    /\ call.op = "execute_trade"
    /\ call.signal = "long"
    /\ position = 0
    /\ trades = <<>>
    /\ capital = initial_capital
    /\ call.quantity * call.price * (RateDen + slippage) * (RateDen + commission)
          > capital

\* C16: on each closing trade the win/loss counters move by sign(pnl):
\* winning_trades grows by 1 exactly when pnl > 0, losing_trades grows by 1
\* exactly when pnl < 0, and neither counter changes when pnl = 0.
C16_CountersBySign ==
    [][(ExecuteTradeStep("close") /\ position > 0)
       => LET pnl == Last(trades').pnl
          IN  /\ winning_trades' = winning_trades + (IF pnl > 0 THEN 1 ELSE 0)
              /\ losing_trades' = losing_trades + (IF pnl < 0 THEN 1 ELSE 0)]_vars

\* C17: a buy at reference price p1 that opened a position, followed by a
\* close at reference price p2 with p2 * (1 - slippage) * (1 - commission)
\* > p1 * (1 + slippage) * (1 + commission), records a sell trade with
\* pnl > 0 and increments winning_trades by exactly 1 (losing_trades is
\* left alone).
C17_WinningRoundTrip ==
    [][\A p1 \in Prices :
          (/\ ExecuteTradeStep("close")
           /\ position > 0
           /\ Last(trades).type = "buy"
           /\ Last(trades).price = p1 * (RateDen + slippage)
           /\ call'.price * (RateDen - slippage) * (RateDen - commission)
                 > p1 * (RateDen + slippage) * (RateDen + commission))
          => /\ Len(trades') = Len(trades) + 1
             /\ Last(trades').type = "sell"
             /\ Last(trades').pnl > 0
             /\ winning_trades' = winning_trades + 1
             /\ losing_trades' = losing_trades]_vars

\* a first round trip with a fee and slippage was closed above its entry
\* and counted as the one winning trade
C17_Witness ==
    /\ call.op = "execute_trade"
    /\ call.signal = "close"
    /\ commission > 0
    /\ slippage > 0
    /\ Len(trades) = 2
    /\ trades[1].type = "buy"
    /\ trades[2].type = "sell"
    /\ trades[2].price > trades[1].price
    /\ trades[2].pnl > 0
    /\ winning_trades = 1
    /\ losing_trades = 0

\* C18: update_equity(timestamp, current_price) appends exactly one equity
\* point with position_value = position * current_price if long else 0 and
\* total_equity = capital + position_value, and changes nothing else
\* (capital, position, entry_price, trades and counters unchanged); every
\* point in equity_curve satisfies total_equity = capital + position_value.
C18_UpdateEquity ==
    /\ [][call'.op = "update_equity"
          => LET value == IF position > 0
                          THEN position * call'.price * MoneyDen ELSE 0
             IN  /\ Len(equity_curve') = Len(equity_curve) + 1
                 /\ SubSeq(equity_curve', 1, Len(equity_curve)) = equity_curve
                 /\ Last(equity_curve').timestamp = call'.timestamp
                 /\ Last(equity_curve').capital = capital
                 /\ Last(equity_curve').position_value = value
                 /\ Last(equity_curve').total_equity = capital + value
                 /\ UNCHANGED <<capital, position, entry_price, position_value,
                                trades, total_trades, winning_trades,
                                losing_trades>>]_vars
    /\ [](\A i \in 1..Len(equity_curve) :
             equity_curve[i].total_equity
                = equity_curve[i].capital + equity_curve[i].position_value)

\* an equity point was taken while long, at a price other than the entry's
C18_Witness ==
    /\ call.op = "update_equity"
    /\ position > 0
    /\ slippage > 0
    /\ equity_curve # <<>>
    /\ Last(equity_curve).position_value = position * call.price * MoneyDen
    /\ Last(equity_curve).position_value # position * entry_price * RateDen
    /\ Last(equity_curve).capital < initial_capital

\* C19: get_performance_metrics, called after the last equity point was
\* taken, reports total_return = final_equity - initial_capital, where
\* final_equity is the total equity (cash plus market value of any open
\* position) at the last equity point, and total_return_pct =
\* total_return / initial_capital * 100, including when a position is
\* still open.
C19_TotalReturn ==
    [][(/\ call.op = "update_equity"
        /\ call'.op = "get_performance_metrics"
        /\ trades # <<>>)
       => LET final_equity == Last(equity_curve).total_equity
          IN  /\ call'.ret.total_return = final_equity - initial_capital
              /\ call'.ret.total_return_pct
                    = Frac((final_equity - initial_capital) * 100,
                           initial_capital)]_vars

\* the sum of the pnl of the sell trades whose pnl has the given sign
RECURSIVE SumPnlOfSign(_, _)
SumPnlOfSign(ts, sign) ==
    IF ts = <<>> THEN 0
    ELSE (IF Last(ts).type = "sell" /\ Last(ts).pnl * sign > 0
          THEN Last(ts).pnl ELSE 0)
         + SumPnlOfSign(SubSeq(ts, 1, Len(ts) - 1), sign)

\* C20: the profit factor reported by get_performance_metrics equals
\* |sum(positive pnl) / sum(negative pnl)| over the closing trades when
\* there is at least one losing trade (so 0 for losses only), +infinity
\* when there are no losing trades and at least one winning trade, and 0
\* when there are neither winning nor losing closed trades.
C20_ProfitFactor ==
    [][(call'.op = "get_performance_metrics" /\ trades # <<>>)
       => LET won == SumPnlOfSign(trades, 1)
              lost == SumPnlOfSign(trades, -1)
              profit_factor == call'.ret.profit_factor
          IN  /\ lost < 0 => profit_factor = Frac(won, -lost)
              /\ (lost = 0 /\ won > 0) => profit_factor = Infinity
              /\ (lost = 0 /\ won = 0) => profit_factor = Zero]_vars

\* the entries of the full metrics record
MetricNames ==
    {"initial_capital", "final_capital", "total_return", "total_return_pct",
     "total_trades", "winning_trades", "losing_trades", "win_rate",
     "avg_profit", "avg_loss", "profit_factor", "max_profit", "max_loss",
     "max_drawdown", "sharpe_ratio"}

\* C21: get_performance_metrics returns the empty-result marker (a record
\* holding only an error entry) if and only if no trade has been recorded;
\* with at least one recorded trade it returns the full metrics record,
\* also when no position was ever closed or the equity curve is empty.
C21_EmptyMarker ==
    [][call'.op = "get_performance_metrics"
       => /\ (trades = <<>>) <=> (DOMAIN call'.ret = {"error"})
          /\ trades # <<>> => DOMAIN call'.ret = MetricNames]_vars

\* the full record was returned with a buy recorded, no position ever
\* closed and an empty equity curve
C21_Witness ==
    /\ call.op = "get_performance_metrics"
    /\ Len(trades) = 1
    /\ trades[1].type = "buy"
    /\ position > 0
    /\ equity_curve = <<>>
    /\ DOMAIN call.ret = MetricNames
    /\ call.ret.total_trades = 0

\* C24: get_performance_metrics changes no engine state (capital, position,
\* trades, equity_curve, counters, and the configuration), and two
\* consecutive calls with no execute_trade / update_equity in between
\* return identical results.
C24_IdempotentMetrics ==
    [][call'.op = "get_performance_metrics"
       => /\ UNCHANGED <<accountVars, initial_capital, commission, slippage>>
          /\ call.op = "get_performance_metrics"
             => call'.ret = call.ret]_vars

\* the full metrics were returned for a run with a closed trade, an equity
\* point and a position open again
C24_Witness ==
    /\ call.op = "get_performance_metrics"
    /\ DOMAIN call.ret = MetricNames
    /\ call.ret.total_trades = 1
    /\ total_trades = 1
    /\ equity_curve # <<>>
    /\ position > 0
    /\ Len(trades) = MaxTrades

\* a negative commission or slippage rate, or a zero initial_capital
ConfigOutOfBounds == commission < 0 \/ slippage < 0 \/ initial_capital = 0

\* C25: a negative commission or slippage rate, or a zero initial_capital,
\* is rejected before any accounting computation uses it: no execute_trade
\* records a trade computed with such a value, and no
\* get_performance_metrics computes with it or divides by a zero
\* initial_capital.
C25_ConfigRejected ==
    [][ConfigOutOfBounds
       => /\ call'.op = "execute_trade" => trades' = trades
          /\ call'.op = "get_performance_metrics"
             => DOMAIN call'.ret = {"error"}]_vars

\* the latest timestamp recorded so far, 0 when nothing is recorded
LastRecorded ==
    LET recorded == {trades[i].timestamp : i \in 1..Len(trades)}
                    \cup {equity_curve[i].timestamp : i \in 1..Len(equity_curve)}
    IN  IF recorded = {} THEN 0
        ELSE CHOOSE m \in recorded : \A x \in recorded : x <= m

\* C26: a call to execute_trade or update_equity whose timestamp is earlier
\* than that of the last recorded trade or equity point appends nothing, so
\* the recorded trades and the equity points are each ordered by
\* non-decreasing timestamp.
C26_ReplayOrder ==
    /\ [][((call'.op = "execute_trade" \/ call'.op = "update_equity")
           /\ call'.timestamp < LastRecorded)
          => /\ trades' = trades
             /\ equity_curve' = equity_curve]_vars
    /\ [](/\ \A i \in 1..Len(trades), j \in 1..Len(trades) :
                i < j => trades[i].timestamp <= trades[j].timestamp
          /\ \A i \in 1..Len(equity_curve), j \in 1..Len(equity_curve) :
                i < j => equity_curve[i].timestamp
                            <= equity_curve[j].timestamp)

-----------------------------------------------------------------------------
(* Claims about RiskManager, checked under RiskSpec *)

\* the step is a call of the named RiskManager operation
RiskCall(name) == rcall'.op = name /\ today' = today

HasPrefix(text, prefix) ==
    Len(text) >= Len(prefix) /\ SubSeq(text, 1, Len(prefix)) = prefix

\* the breaker is tripped and its reason is the daily-loss rule's
DailyLossTrip ==
    circuit_breaker_active /\ HasPrefix(circuit_breaker_reason, DailyLossPrefix)

\* the breaker is tripped and its reason is the consecutive-loss rule's
ConsecutiveLossTrip ==
    circuit_breaker_active /\ HasPrefix(circuit_breaker_reason, ConsecutivePrefix)

\* C3: once the breaker is tripped, every check_trade_allowed returns
\* (False, reason), and the breaker stays tripped across update_balance,
\* record_trade_result, calculate_position_size, add_position,
\* remove_position and initialize, until reset_circuit_breaker is called or
\* a day rollover clears a daily-loss-attributed trip.
C3_BreakerMonotone ==
    [][circuit_breaker_active
       => /\ RiskCall("check_trade_allowed")
             => ~rcall'.ret.allowed /\ rcall'.ret.reason # None
          /\ (~RiskCall("reset_circuit_breaker")
              /\ ~(RiskCall("update_balance") /\ DailyResetDue /\ DailyLossTrip))
             => circuit_breaker_active']_vars

\* a tripped breaker denied a check on a later day, after the other
\* operations ran
C3_Witness ==
    /\ circuit_breaker_active
    /\ rcall.op = "check_trade_allowed"
    /\ rcall.ret = [allowed |-> FALSE,
                    reason |-> BreakerPrefix \o circuit_breaker_reason]
    /\ today > 0
    /\ last_reset_date = today
    /\ open_positions # <<>>
    /\ initial_balance # current_balance

\* C7: with max_consecutive_losses = N, after N record_trade_result(pnl < 0,
\* is_win = False) calls with no win in between the breaker is active with
\* a consecutive-loss reason and the check_trade_allowed that follows
\* returns (False, reason); record_trade_result never trips the breaker
\* while fewer than N consecutive losses have been recorded.
C7_ConsecutiveLossBreaker ==
    [][/\ (RiskCall("record_trade_result") /\ ~rcall'.is_win
           /\ streak' >= config.max_consecutive_losses)
          => /\ circuit_breaker_active'
             /\ HasPrefix(circuit_breaker_reason', ConsecutivePrefix)
       /\ (rcall.op = "record_trade_result" /\ ~rcall.is_win
           /\ streak >= config.max_consecutive_losses
           /\ RiskCall("check_trade_allowed"))
          => ~rcall'.ret.allowed /\ rcall'.ret.reason # None
       /\ (RiskCall("record_trade_result")
           /\ streak' < config.max_consecutive_losses)
          => UNCHANGED <<circuit_breaker_active, circuit_breaker_reason>>]_vars

\* the N-th loss in a row (N >= 2, pnl < 0) has just tripped the breaker
C7_Witness ==
    /\ rcall.op = "record_trade_result"
    /\ ~rcall.is_win
    /\ rcall.pnl < 0
    /\ config.max_consecutive_losses >= 2
    /\ streak = config.max_consecutive_losses
    /\ ConsecutiveLossTrip

\* C8: if the breaker was tripped by the daily-loss check and the calendar
\* date then advances, the rollover check of the next update_balance sets
\* circuit_breaker_active to false and clears the reason.
C8_RolloverClearsDailyTrip ==
    [][(DailyLossTrip /\ DailyResetDue /\ RiskCall("update_balance"))
       => ~circuit_breaker_active' /\ circuit_breaker_reason' = None]_vars

\* C9: a breaker tripped by the consecutive-loss threshold survives every
\* day rollover: update_balance on a later date leaves it active with its
\* reason, and only reset_circuit_breaker ends a consecutive-loss trip.
C9_RolloverKeepsConsecutiveTrip ==
    [][ConsecutiveLossTrip
       => /\ RiskCall("update_balance")
             => /\ circuit_breaker_active'
                /\ circuit_breaker_reason' = circuit_breaker_reason
          /\ ~RiskCall("reset_circuit_breaker")
             => /\ circuit_breaker_active'
                /\ HasPrefix(circuit_breaker_reason', ConsecutivePrefix)]_vars

\* a consecutive-loss trip is still in place after update_balance performed
\* the reset of the last day
C9_Witness ==
    /\ ConsecutiveLossTrip
    /\ rcall.op = "update_balance"
    /\ today = MaxDay
    /\ last_reset_date = today
    /\ daily_pnl = 0
    /\ streak >= config.max_consecutive_losses

\* C10: once the date has advanced past last_reset_date, the next
\* update_balance, record_trade_result or check_trade_allowed performs the
\* daily reset (daily_pnl = 0, daily_start_balance = current_balance,
\* last_reset_date = today) before its own effect.
C10_LazyRollover ==
    [][(DailyResetDue
        /\ \/ RiskCall("update_balance")
           \/ RiskCall("record_trade_result")
           \/ RiskCall("check_trade_allowed"))
       => /\ last_reset_date' = today
          /\ daily_start_balance' = current_balance'
          /\ daily_pnl' = (IF rcall'.op = "record_trade_result"
                           THEN rcall'.pnl ELSE 0)]_vars

-----------------------------------------------------------------------------
(* Claims about RiskManager's gates, checked under GateSpec *)

\* (daily_start_balance - current_balance) / daily_start_balance
\*    >= max_daily_loss, for a current_balance above the minimum (>= 0);
\* with daily_start_balance = 0 the quotient is not a number >= the limit
DailyLossRatioReached ==
    (daily_start_balance - current_balance) * PctDen
        >= config.max_daily_loss * daily_start_balance

\* C11: check_trade_allowed evaluates its checks in the order circuit
\* breaker active, emergency stop, current_balance <= min_account_balance,
\* daily loss ratio >= max_daily_loss; the returned reason is that of the
\* first failing check, and it returns (True, None) exactly when none of
\* the four fails.
C11_CheckOrder ==
    [][RiskCall("check_trade_allowed")
       => LET ret == rcall'.ret
          IN  IF circuit_breaker_active
              THEN /\ ~ret.allowed
                   /\ ret.reason = BreakerPrefix \o circuit_breaker_reason
              ELSE IF config.emergency_stop
              THEN ~ret.allowed /\ ret.reason = EmergencyText
              ELSE IF current_balance <= config.min_account_balance
              THEN ~ret.allowed /\ HasPrefix(ret.reason, BalancePrefix)
              ELSE IF DailyLossRatioReached
              THEN ~ret.allowed /\ HasPrefix(ret.reason, DailyLossPrefix)
              ELSE ret = [allowed |-> TRUE, reason |-> None]]_vars

\* a check was denied for the emergency stop although the balance is at
\* the minimum as well, with a loss on the day
C11_Witness ==
    /\ rcall.op = "check_trade_allowed"
    /\ ~circuit_breaker_active
    /\ config.emergency_stop
    /\ current_balance <= config.min_account_balance
    /\ daily_start_balance > current_balance
    /\ ~rcall.ret.allowed
    /\ rcall.ret.reason = EmergencyText

\* C12: check_trade_allowed changes state only through the daily-loss
\* rule: when the daily-loss check fails it sets circuit_breaker_active
\* with the daily-loss reason, the one it returns; when it returns
\* (True, None), or denies for the breaker, the emergency stop or the
\* balance, it leaves the breaker unchanged; every other field is
\* unchanged in all cases.
C12_CheckTripsOnlyOnDailyLoss ==
    [][RiskCall("check_trade_allowed")
       => /\ UNCHANGED <<config, initial_balance, current_balance, equity,
                         daily_start_balance, daily_pnl, last_reset_date,
                         consecutive_losses, open_positions>>
          /\ IF /\ ~circuit_breaker_active
                /\ ~config.emergency_stop
                /\ current_balance > config.min_account_balance
                /\ DailyLossRatioReached
             THEN /\ circuit_breaker_active'
                  /\ HasPrefix(circuit_breaker_reason', DailyLossPrefix)
                  /\ circuit_breaker_reason' = rcall'.ret.reason
             ELSE UNCHANGED <<circuit_breaker_active,
                              circuit_breaker_reason>>]_vars

\* a check has just tripped the breaker on the daily loss, with positions
\* open
C12_Witness ==
    /\ rcall.op = "check_trade_allowed"
    /\ ~rcall.ret.allowed
    /\ HasPrefix(rcall.ret.reason, DailyLossPrefix)
    /\ circuit_breaker_active
    /\ circuit_breaker_reason = rcall.ret.reason
    /\ current_balance > config.min_account_balance
    /\ open_positions # <<>>

\* the fields of the RiskManager
riskState == <<config, initial_balance, current_balance, equity,
               daily_start_balance, daily_pnl, last_reset_date,
               consecutive_losses, circuit_breaker_active,
               circuit_breaker_reason, open_positions>>

\* C13: calculate_position_size returns (0, 0) whenever the circuit
\* breaker is active, the emergency_stop option is set, or current_balance
\* <= min_account_balance, for every price and signal strength, and in
\* doing so changes no field of the RiskManager.
C13_SizingShortCircuits ==
    [][(/\ RiskCall("calculate_position_size")
        /\ \/ circuit_breaker_active
           \/ config.emergency_stop
           \/ current_balance <= config.min_account_balance)
       => /\ rcall'.ret = [amount |-> Frac(0, 1), quantity |-> Frac(0, 1)]
          /\ UNCHANGED riskState]_vars

\* a full-strength sizing call was answered (0, 0) for the emergency stop
\* alone: the breaker is off, the balance and the equity are above zero and
\* nothing is open
C13_Witness ==
    /\ rcall.op = "calculate_position_size"
    /\ rcall.strength = StrengthDen
    /\ rcall.ret = NoSize
    /\ config.emergency_stop
    /\ ~circuit_breaker_active
    /\ current_balance > config.min_account_balance
    /\ equity > 0
    /\ open_positions = <<>>

\* C14: calculate_position_size, when none of the short-circuit conditions
\* holds, returns (0, 0) if the sum of the values of the open positions is
\* >= max_total_exposure * equity; otherwise it returns amount =
\* current_balance * max_position_size * signal_strength and quantity =
\* amount / price.
C14_SizingFormula ==
    [][(/\ RiskCall("calculate_position_size")
        /\ ~circuit_breaker_active
        /\ ~config.emergency_stop
        /\ current_balance > config.min_account_balance)
       => LET exposure == SumValues(open_positions, DOMAIN open_positions)
              amount == current_balance * config.max_position_size
                           * rcall'.strength
          IN  IF exposure * PctDen >= config.max_total_exposure * equity
              THEN rcall'.ret = [amount |-> Frac(0, 1), quantity |-> Frac(0, 1)]
              ELSE rcall'.ret
                      = [amount |-> Frac(amount, PctDen * StrengthDen),
                         quantity |-> Frac(amount, PctDen * StrengthDen
                                                      * rcall'.price)]]_vars

-----------------------------------------------------------------------------
(* Claims about the statistics, checked under CurveSpec *)

\* the highest total equity of the points 1..t
PeakUpTo(t) ==
    CHOOSE m \in {equity_curve[s].total_equity : s \in 1..t} :
        \A s \in 1..t : equity_curve[s].total_equity <= m

\* (equity[t] - running_max[0..t]) / running_max[0..t] * 100
DrawdownAt(t) ==
    Frac((equity_curve[t].total_equity - PeakUpTo(t)) * 100, PeakUpTo(t))

\* x <= y for fractions
FracLeq(x, y) == ~FracLess(y, x)

\* C22: for the equity curve produced by any sequence of execute_trade /
\* update_equity calls with prices > 0, get_performance_metrics reports
\* max_drawdown <= 0, equal to the minimum over t of
\* (equity[t] - running_max[0..t]) / running_max[0..t] * 100, and exactly 0
\* when equity never falls below a prior peak.
C22_DrawdownBound ==
    [][(call'.op = "get_performance_metrics" /\ trades # <<>>)
       => LET max_drawdown == call'.ret.max_drawdown
              points == 1..Len(equity_curve)
          IN  /\ max_drawdown.num <= 0
              /\ max_drawdown.den > 0
              /\ points # {}
                 => /\ \E t \in points : max_drawdown = DrawdownAt(t)
                    /\ \A t \in points : FracLeq(max_drawdown, DrawdownAt(t))
              /\ (\A t \in points :
                     equity_curve[t].total_equity = PeakUpTo(t))
                 => max_drawdown = Zero]_vars

\* a drawdown was reported that is the deepest of three points and not the
\* last one's: the curve fell below its peak and recovered in part
C22_Witness ==
    /\ call.op = "get_performance_metrics"
    /\ trades # <<>>
    /\ Len(equity_curve) = 3
    /\ call.ret.max_drawdown.num < 0
    /\ call.ret.max_drawdown = DrawdownAt(2)
    /\ call.ret.max_drawdown # DrawdownAt(3)
    /\ DrawdownAt(3).num < 0

\* the pnl_pct of the closing trades, in order
ClosedReturns ==
    LET closed == SelectSeq(trades, LAMBDA t : t.type = "sell")
    IN  [i \in 1..Len(closed) |-> closed[i].pnl_pct]

\* C23: sharpe_ratio equals the mean of the closing trades' pnl_pct divided
\* by their sample standard deviation (n - 1 denominator), and equals 0
\* when fewer than two trades were closed or when the standard deviation is
\* 0 (all pnl_pct equal).
C23_SharpeSampleStd ==
    [][(call'.op = "get_performance_metrics" /\ trades # <<>>)
       => call'.ret.sharpe_ratio
             = (IF \/ Len(ClosedReturns) < 2
                   \/ \A i \in 1..Len(ClosedReturns) :
                         ClosedReturns[i] = ClosedReturns[1]
                THEN Zero
                ELSE [mean_over_std |-> ClosedReturns, ddof |-> 1])]_vars

-----------------------------------------------------------------------------
(* Further claims about RiskManager, checked under RiskSpec *)

\* C27: the breaker is a two-state machine: circuit_breaker_active holds if
\* and only if circuit_breaker_reason is set; it goes from inactive to
\* active only inside check_trade_allowed (daily-loss rule) or
\* record_trade_result (consecutive-loss threshold), and from active to
\* inactive only through reset_circuit_breaker or a day rollover;
\* initialize, update_balance on the same date, sizing, position
\* bookkeeping and get_risk_report never change it.
C27_BreakerTwoStates ==
    /\ [](circuit_breaker_active <=> circuit_breaker_reason # None)
    /\ [][/\ (~circuit_breaker_active /\ circuit_breaker_active')
             => \/ /\ RiskCall("check_trade_allowed")
                   /\ HasPrefix(circuit_breaker_reason', DailyLossPrefix)
                \/ /\ RiskCall("record_trade_result")
                   /\ HasPrefix(circuit_breaker_reason', ConsecutivePrefix)
          /\ (circuit_breaker_active /\ ~circuit_breaker_active')
             => \/ RiskCall("reset_circuit_breaker")
                \/ RiskCall("update_balance") /\ DailyResetDue
          /\ (\/ RiskCall("initialize")
              \/ RiskCall("update_balance") /\ ~DailyResetDue
              \/ RiskCall("calculate_position_size")
              \/ RiskCall("add_position")
              \/ RiskCall("remove_position")
              \/ RiskCall("get_risk_report"))
             => UNCHANGED <<circuit_breaker_active,
                            circuit_breaker_reason>>]_vars

\* a breaker tripped by the losses in a row was reset by hand and is
\* reported inactive with no reason
C27_Witness ==
    /\ rcall.op = "get_risk_report"
    /\ ~rcall.ret.circuit_breaker_active
    /\ rcall.ret.circuit_breaker_reason = None
    /\ ~circuit_breaker_active
    /\ consecutive_losses >= config.max_consecutive_losses
    /\ streak >= config.max_consecutive_losses

\* C28: day-rollover decisions never depend on the real wall clock: the
\* rollover decision an update_balance takes is the same at whatever real
\* date the call executes, so that the same operations reach the same
\* state whatever the real time of the run.
C28_ClockIndependentRollover ==
    [][RiskCall("update_balance")
       => \A date \in 0..MaxDay :
             /\ ResetDueOn(date) <=> ResetDueOn(today)
             /\ ResetDueOn(date) <=> (last_reset_date' # last_reset_date)]_vars

-----------------------------------------------------------------------------
(* Further claims about the gates, checked under GateSpec *)

\* C29: risk denial is a value, never an exception: in every reachable
\* state (equity = 0 set through update_balance(balance, equity=0) and
\* daily_start_balance = 0 included) and for every price > 0,
\* calculate_position_size returns either (0, 0) or a positive size, and
\* check_trade_allowed returns (True, None) or (False, reason).
C29_DenialIsAValue ==
    [][/\ RiskCall("calculate_position_size")
          => /\ DOMAIN rcall'.ret = {"amount", "quantity"}
             /\ \/ rcall'.ret = [amount |-> Zero, quantity |-> Zero]
                \/ rcall'.ret.amount.num > 0 /\ rcall'.ret.quantity.num > 0
       /\ RiskCall("check_trade_allowed")
          => /\ DOMAIN rcall'.ret = {"allowed", "reason"}
             /\ rcall'.ret.allowed <=> rcall'.ret.reason = None]_vars

-----------------------------------------------------------------------------
(* Claims about RiskManager.initialize, checked under RiskSpec *)

\* C30: initialize(balance) sets initial_balance, current_balance, equity
\* and daily_start_balance all to balance and changes nothing else:
\* daily_pnl, consecutive_losses, the breaker's state and reason,
\* open_positions and last_reset_date keep their values (re-initializing
\* does not clear a tripped breaker).
C30_InitializeFrame ==
    [][RiskCall("initialize")
       => /\ initial_balance' = rcall'.balance
          /\ current_balance' = rcall'.balance
          /\ equity' = rcall'.balance
          /\ daily_start_balance' = rcall'.balance
          /\ UNCHANGED <<config, daily_pnl, consecutive_losses,
                         circuit_breaker_active, circuit_breaker_reason,
                         open_positions, last_reset_date>>]_vars

\* a manager with a tripped breaker, losses on the day and a position open
\* was initialized again with another balance on a later day than its last
\* reset
C30_Witness ==
    /\ rcall.op = "initialize"
    /\ rcall.balance > 0
    /\ initial_balance = rcall.balance
    /\ daily_start_balance = rcall.balance
    /\ circuit_breaker_active
    /\ daily_pnl < 0
    /\ consecutive_losses > 0
    /\ open_positions # <<>>
    /\ today > last_reset_date

-----------------------------------------------------------------------------
(* Claims about the stop-loss and take-profit levels, checked under       *)
(* BookSpec.  Levels are in 1/PctDen of a price unit.                     *)

\* the step is a call of calculate_stop_loss or calculate_take_profit
LevelCall == RiskCall("calculate_stop_loss") \/ RiskCall("calculate_take_profit")

\* the configured percentages lie strictly between 0 and 1
PctsInUnitInterval ==
    /\ 0 < config.stop_loss_pct /\ config.stop_loss_pct < PctDen
    /\ 0 < config.take_profit_pct /\ config.take_profit_pct < PctDen

\* the value the claim gives for the call: entry_price * (1 -/+ pct)
ClaimedLevel(op, entry, side) ==
    LET pct == IF op = "calculate_stop_loss" THEN config.stop_loss_pct
                                             ELSE config.take_profit_pct
        below == (op = "calculate_stop_loss") <=> (side = "long")
    IN  IF below THEN entry * (PctDen - pct) ELSE entry * (PctDen + pct)

\* the returned level lies on the claimed side of the entry price, strictly
LevelStrictlyOrdered(op, entry, side, level) ==
    IF (op = "calculate_stop_loss") <=> (side = "long")
    THEN level < entry * PctDen
    ELSE level > entry * PctDen

\* the returned level lies on the claimed side of the entry price, or on it
LevelOrdered(op, entry, side, level) ==
    IF (op = "calculate_stop_loss") <=> (side = "long")
    THEN level <= entry * PctDen
    ELSE level >= entry * PctDen

\* C31: calculate_stop_loss and calculate_take_profit change no field of
\* the RiskManager; for percentages in (0, 1) they return, for 'long',
\* stop = entry_price * (1 - stop_loss_pct) and take-profit = entry_price *
\* (1 + take_profit_pct), so stop < entry_price < take-profit, and for
\* 'short' the mirror image, take-profit < entry_price < stop - for every
\* entry price.
C31_LevelsStrictlyOrdered ==
    [][(LevelCall /\ PctsInUnitInterval)
       => /\ UNCHANGED riskState
          /\ rcall'.ret = ClaimedLevel(rcall'.op, rcall'.entry_price, rcall'.side)
          /\ LevelStrictlyOrdered(rcall'.op, rcall'.entry_price,
                                  rcall'.side, rcall'.ret)]_vars

\* C31, amended: the two calls change no field and return the claimed
\* products; the returned level lies on the claimed side of the entry
\* price or on it, and strictly on that side when entry_price > 0.
C31_LevelsOrdered ==
    [][(LevelCall /\ PctsInUnitInterval)
       => /\ UNCHANGED riskState
          /\ rcall'.ret = ClaimedLevel(rcall'.op, rcall'.entry_price, rcall'.side)
          /\ LevelOrdered(rcall'.op, rcall'.entry_price, rcall'.side, rcall'.ret)
          /\ rcall'.entry_price > 0
             => LevelStrictlyOrdered(rcall'.op, rcall'.entry_price,
                                     rcall'.side, rcall'.ret)]_vars

\* a stop-loss was computed for a short position at a positive entry price
\* while a position was open, and it lies above the entry price
C31_Witness ==
    /\ rcall.op = "calculate_stop_loss"
    /\ rcall.side = "short"
    /\ rcall.entry_price > 0
    /\ rcall.ret > rcall.entry_price * PctDen
    /\ open_positions # <<>>

-----------------------------------------------------------------------------
(* Claims about the open-positions map, checked under BookSpec *)

\* the step is add_position or remove_position on this symbol
BookCallOn(symbol) ==
    /\ rcall'.op \in {"add_position", "remove_position"}
    /\ rcall'.symbol = symbol
    /\ today' = today

\* C32: add_position(symbol, ...) stores the stop-loss and take-profit
\* levels computed at insertion time; no step other than add_position or
\* remove_position on the same symbol changes an entry or adds one
\* (update_balance, record_trade_result, check_trade_allowed, sizing and the
\* day rollover included); a second add_position on a symbol replaces its
\* entry, so the map holds one entry per symbol; remove_position of an
\* absent symbol changes nothing.
C32_PositionsFrame ==
    [][/\ \A s \in Symbols :
            ~BookCallOn(s)
            => /\ (s \in DOMAIN open_positions') <=> (s \in DOMAIN open_positions)
               /\ s \in DOMAIN open_positions
                  => open_positions'[s] = open_positions[s]
       /\ RiskCall("add_position")
          => LET s == rcall'.symbol
                 p == open_positions'[s]
             IN  /\ DOMAIN open_positions' = DOMAIN open_positions \cup {s}
                 /\ p.value = p.quantity * p.entry_price
                 /\ p.stop_loss = ClaimedLevel("calculate_stop_loss",
                                               p.entry_price, p.side)
                 /\ p.take_profit = ClaimedLevel("calculate_take_profit",
                                                 p.entry_price, p.side)
       /\ RiskCall("remove_position")
          => /\ DOMAIN open_positions' = DOMAIN open_positions \ {rcall'.symbol}
             /\ rcall'.symbol \notin DOMAIN open_positions
                => UNCHANGED riskState]_vars

\* update_balance has just rolled the day over and tripped nothing while a
\* long and a short position, opened at different prices, are in the map
C32_Witness ==
    /\ rcall.op = "update_balance"
    /\ today > 0
    /\ last_reset_date = today
    /\ DOMAIN open_positions = Symbols
    /\ open_positions["BTC"].side = "long"
    /\ open_positions["ETH"].side = "short"
    /\ open_positions["BTC"].entry_price # open_positions["ETH"].entry_price
    /\ open_positions["ETH"].stop_loss > open_positions["ETH"].take_profit

-----------------------------------------------------------------------------
(* Claims about RiskManager.get_risk_report, checked under RiskSpec *)

\* C33: get_risk_report changes no field of the RiskManager in any
\* reachable state - it neither trips nor clears the breaker and does not
\* perform the daily rollover - and the breaker state, consecutive_losses,
\* the balances and the exposure it reports are the current field values.
C33_ReportIsSnapshot ==
    [][RiskCall("get_risk_report")
       => /\ UNCHANGED riskState
          /\ LET report == rcall'.ret
             IN  /\ report.circuit_breaker_active = circuit_breaker_active
                 /\ report.circuit_breaker_reason = circuit_breaker_reason
                 /\ report.consecutive_losses = consecutive_losses
                 /\ report.current_balance = current_balance
                 /\ report.equity = equity
                 /\ report.daily_pnl = daily_pnl
                 /\ report.total_pnl = current_balance - initial_balance
                 /\ report.open_positions_count
                       = Cardinality(DOMAIN open_positions)
                 /\ report.total_exposure
                       = SumValues(open_positions, DOMAIN open_positions)]_vars

\* a report was taken with the daily loss limit reached but the breaker not
\* tripped, a day rollover pending, a loss on the streak and a position
\* open: the report left all of it as it was
C33_Witness ==
    /\ rcall.op = "get_risk_report"
    /\ ~circuit_breaker_active
    /\ ~rcall.ret.circuit_breaker_active
    /\ DailyLossReached
    /\ current_balance > config.min_account_balance
    /\ today > last_reset_date
    /\ consecutive_losses > 0
    /\ open_positions # <<>>

-----------------------------------------------------------------------------
(* Claims about the exposure cap, checked under ExposureSpec *)

\* C34: when positions are opened only through add_position with quantity *
\* entry_price equal to an amount returned by calculate_position_size in
\* the current state, and equity stays fixed, the total value of the open
\* positions never exceeds max_total_exposure * equity.
C34_ExposureCap ==
    calculate_total_exposure * PctDen <= config.max_total_exposure * equity

-----------------------------------------------------------------------------
(* Claims about the consecutive-loss counter, checked under RiskSpec *)

\* C35: consecutive_losses always equals the number of
\* record_trade_result(is_win=False) calls since the most recent
\* record_trade_result(is_win=True) call, or since construction;
\* reset_circuit_breaker, initialize and update_balance, with or without a
\* day rollover, leave it unchanged; so with the counter still at the limit
\* after an explicit reset, the very next recorded loss trips the breaker
\* again with the consecutive-loss reason.
C35_LossCounter ==
    /\ [](consecutive_losses = streak)
    /\ [][/\ (\/ RiskCall("reset_circuit_breaker")
              \/ RiskCall("initialize")
              \/ RiskCall("update_balance"))
             => consecutive_losses' = consecutive_losses
          /\ (/\ rcall.op = "reset_circuit_breaker"
              /\ consecutive_losses >= config.max_consecutive_losses
              /\ RiskCall("record_trade_result")
              /\ ~rcall'.is_win)
             => /\ ~circuit_breaker_active
                /\ circuit_breaker_active'
                /\ circuit_breaker_reason'
                      = ConsecutiveReason(consecutive_losses + 1)]_vars

\* check_trade_allowed has just allowed trading although the counter is at
\* the limit: the consecutive-loss trip was reset explicitly and the
\* counter kept its value
C35_Witness ==
    /\ rcall.op = "check_trade_allowed"
    /\ rcall.ret.allowed
    /\ ~circuit_breaker_active
    /\ consecutive_losses >= config.max_consecutive_losses
    /\ streak = consecutive_losses

-----------------------------------------------------------------------------
(* Claims about the gates before initialize, checked under FreshSpec *)

\* the balances are as the constructor left them
AllBalancesZero ==
    /\ initial_balance = 0
    /\ current_balance = 0
    /\ equity = 0
    /\ daily_start_balance = 0

\* C36: on a RiskManager on which initialize has never been called and
\* whose balances are all 0, for every configuration with
\* min_account_balance >= 0, check_trade_allowed returns (False, reason) and
\* calculate_position_size returns (0, 0); neither raises and neither trips
\* the circuit breaker.
C36_GatesShutBeforeInitialize ==
    [][(AllBalancesZero /\ config.min_account_balance >= 0)
       => /\ RiskCall("check_trade_allowed")
             => /\ rcall'.ret.allowed = FALSE
                /\ rcall'.ret.reason # None
                /\ UNCHANGED riskState
          /\ RiskCall("calculate_position_size")
             => /\ rcall'.ret = NoSize
                /\ UNCHANGED riskState]_vars

\* check_trade_allowed has just refused on the balance alone, before
\* initialize: no breaker, no emergency stop, a min_account_balance of 0
\* and a max_daily_loss of 0, which the daily-loss check would have met
C36_Witness ==
    /\ rcall.op = "check_trade_allowed"
    /\ ~rcall.ret.allowed
    /\ HasPrefix(rcall.ret.reason, BalancePrefix)
    /\ AllBalancesZero
    /\ ~circuit_breaker_active
    /\ ~config.emergency_stop
    /\ config.min_account_balance = 0
    /\ config.max_daily_loss = 0

-----------------------------------------------------------------------------
(* Claims about the engine's cash, checked under CashSpec *)

\* C37: with initial_capital >= 0, prices >= 0, quantities >= 0 and
\* commission and slippage in [0, 1), capital >= 0 holds in every state
\* reachable by execute_trade and update_equity calls.
C37_CashNeverNegative ==
    (/\ initial_capital >= 0
     /\ 0 <= commission /\ commission < RateDen
     /\ 0 <= slippage /\ slippage < RateDen)
    => capital >= 0

\* a 'long' at a positive price and quantity has just been refused for lack
\* of cash, after a round trip that lost money
C37_Witness ==
    /\ call.op = "execute_trade"
    /\ call.signal = "long"
    /\ call.price > 0
    /\ call.quantity > 0
    /\ position = 0
    /\ Len(trades) = 2
    /\ 0 < capital
    /\ capital < initial_capital

-----------------------------------------------------------------------------
(* Claims about the engine's counters, checked under CurveSpec *)

\* the number of recorded sell trades
ClosedCount == Len(SelectSeq(trades, LAMBDA t : t.type = "sell"))

Hundred == Frac(100, 1)

\* C38: in every reachable state total_trades equals the number of recorded
\* sell trades and equals winning_trades + losing_trades; so the win_rate
\* that get_performance_metrics reports, winning_trades / total_trades *
\* 100, lies in [0, 100] and is 0 when no trade has been closed.
C38_CounterConsistency ==
    /\ [](/\ total_trades = ClosedCount
          /\ total_trades = winning_trades + losing_trades
          /\ winning_trades >= 0
          /\ losing_trades >= 0)
    /\ [][(call'.op = "get_performance_metrics" /\ trades # <<>>)
          => LET win_rate == call'.ret.win_rate
             IN  /\ FracLeq(Zero, win_rate)
                 /\ FracLeq(win_rate, Hundred)
                 /\ ClosedCount = 0 => win_rate = Zero
                 /\ ClosedCount > 0
                    => win_rate = Frac(winning_trades * 100, ClosedCount)]_vars

\* a win rate of 50 was reported: of two closed round trips one won and one
\* lost
C38_Witness ==
    /\ call.op = "get_performance_metrics"
    /\ Len(trades) = 4
    /\ ClosedCount = 2
    /\ call.ret.win_rate = Frac(50, 1)
    /\ winning_trades = 1
    /\ losing_trades = 1

-----------------------------------------------------------------------------
(* Claims about GridTradingStrategy, checked under GridSpec *)

\* the grid levels recorded as filled
Filled == DOMAIN grid_positions

\* C39: generate_signal keeps its record of filled grid levels consistent
\* with the signals it emits: whenever a call adds an entry to
\* grid_positions the signal it returns is 'long', and whenever a call
\* removes an entry the signal it returns is 'close' - also on bars whose
\* close is outside the grid range, where the forced close applies.
C39_GridBookMatchesSignal ==
    [][gcall'.op = "generate_signal"
       => /\ (Filled' \ Filled # {}) => gcall'.ret.signal = "long"
          /\ (Filled \ Filled' # {}) => gcall'.ret.signal = "close"]_vars

=============================================================================
